---- MODULE Spec2Model ----
(***************************************************************************)
(* Claude-Trader-NinjaTrader: the risk gate (src/src/risk_manager.py),     *)
(* the gap-zone registry (src/FairValueGaps.py) and the live orchestrator  *)
(* step (src/main.py, src/src/signal_generator.py) as state machines.      *)
(*                                                                         *)
(* Prices are integers in units of 1/PriceScale point, so that the         *)
(* two-decimal formatting of the signal file is a real conversion.         *)
(* Confidence is in percent.  Time is a minute counter `now` and a day     *)
(* counter `today` (the value of datetime.now()).                          *)
(***************************************************************************)
EXTENDS Integers, Sequences, FiniteSets, TLC

VARIABLES
    metrics,        \* EnterpriseRiskManager.metrics (RiskMetrics)
    state_file,     \* the JSON file behind _save_state / _load_state
    now,            \* datetime.now(), minutes
    today,          \* datetime.now().strftime('%Y-%m-%d'), a day number
    ret,            \* the last call on the gate and what it returned
    req,            \* the arguments of the last check_pre_trade call
    hist,           \* history of the gate, for stating the properties
    active_fvgs,    \* FVGDisplay.active_fvgs
    df,             \* the rows of HistoricalData.csv read by FVGDisplay
    fvg_phase,      \* "offline" before FVGDisplay starts, then "live"
    last_processed, \* FVGDisplay.last_processed_bar_time, a row number or None
    orch,           \* the orchestrator: signal file, last_bar_time, last step,
                    \* the price last polled and the last decision context
    config,         \* EnterpriseRiskManager.config: the settings read by the
                    \* stop and risk/reward checks of check_pre_trade
    trade,          \* a trade under ExitManager: the arguments of the last
                    \* create_exit_plan / get_exit_recommendation call, the
                    \* plan and the actions returned
    breaker,        \* a CircuitBreaker: its settings, _failures, _successes,
                    \* _state and _last_failure_time
    clock           \* time.time(), seconds

vars == <<metrics, state_file, now, today, ret, req, hist,
          active_fvgs, df, fvg_phase, last_processed, orch, config, trade,
          breaker, clock>>

riskVars == <<metrics, state_file, now, today, ret, req, hist, config>>
zoneVars == <<active_fvgs, df, fvg_phase, last_processed>>

(***************************************************************************)
(* Bounds of the model and configuration values                            *)
(***************************************************************************)
PriceScale == 10 * 100          \* price units per point: three decimals

MaxTime == 2                    \* the clock stops after this many minutes
MaxDays == 1                    \* and after this many midnights
MaxRecords == 3                 \* record_trade_entry / record_trade_exit calls explored

\* RiskConfig / TradingConfig (src/src/core/config_manager.py).  The first
\* two are configuration inputs set small, to the scale of the model's
\* clock and call budget; the others are the defaults.
MaxDailyTrades == 2             \* risk.max_daily_trades
CoolDownMinutes == 1            \* risk.cool_down_after_loss_minutes
MaxDailyLoss == 100             \* risk.max_daily_loss, points
MaxConsecutiveLosses == 3       \* risk.max_consecutive_losses
MaxPositionSize == 10           \* risk.max_position_size
MaxDrawdownPercent == 5         \* risk.max_drawdown_percent
StopLossMin == 15               \* risk.stop_loss_min, points
StopLossMax == 50               \* risk.stop_loss_max, points
MinRiskReward == 3              \* trading.min_risk_reward
ConfidenceThreshold == 65       \* trading.confidence_threshold, percent
DailyVolumeCap == 50            \* the literal in check_pre_trade

\* self.config as check_pre_trade reads it: the defaults
RiskConfig ==
    [stop_loss_min |-> StopLossMin, stop_loss_max |-> StopLossMax,
     min_risk_reward |-> MinRiskReward]

Pts(x) == x * PriceScale
Abs(x) == IF x < 0 THEN -x ELSE x
Max(a, b) == IF a > b THEN a ELSE b

(***************************************************************************)
(* RiskState, RiskMetrics                                                  *)
(***************************************************************************)
NORMAL == "normal"
WARNING == "warning"
HALTED == "halted"
COOLDOWN == "cooldown"

None == 0 - 1                   \* an unset Optional[datetime]

RiskMetrics ==
    [daily_trades |-> 0, daily_pnl |-> 0, daily_wins |-> 0, daily_losses |-> 0,
     consecutive_losses |-> 0, current_drawdown |-> 0, peak_equity |-> 0,
     current_equity |-> 0, open_positions |-> 0, daily_volume |-> 0,
     last_loss_time |-> None,
     state |-> NORMAL, state_reason |-> ""]

\* the state file: exists is path.exists(), valid_json whether json.load
\* parses it, the other fields are the keys of the dictionary
NoFile ==
    [exists |-> FALSE, valid_json |-> TRUE, date |-> 0, daily_trades |-> 0, daily_pnl |-> 0,
     daily_wins |-> 0, daily_losses |-> 0, consecutive_losses |-> 0,
     peak_equity |-> 0, daily_volume |-> 0, state |-> NORMAL, state_reason |-> ""]

\* _save_state: the dictionary written to the state file
SaveState(m, date) ==
    [exists |-> TRUE, valid_json |-> TRUE, date |-> date, daily_trades |-> m.daily_trades,
     daily_pnl |-> m.daily_pnl, daily_wins |-> m.daily_wins,
     daily_losses |-> m.daily_losses, consecutive_losses |-> m.consecutive_losses,
     peak_equity |-> m.peak_equity, daily_volume |-> m.daily_volume,
     state |-> m.state, state_reason |-> m.state_reason]

\* _reset_daily_counters
ResetDailyCounters(m) ==
    LET z == [m EXCEPT !.daily_trades = 0, !.daily_pnl = 0, !.daily_wins = 0,
                       !.daily_losses = 0, !.daily_volume = 0]
    IN  IF z.state = HALTED
        THEN [z EXCEPT !.state = NORMAL, !.state_reason = ""]
        ELSE z

\* the values of the enum RiskState
RiskStates == {NORMAL, WARNING, HALTED, COOLDOWN}

\* _load_state on a freshly constructed RiskMetrics.  read_json returns {}
\* for a missing file and json.load raises on an unparsable one; the seven
\* counters are assigned before RiskState(state_data['state']) is built,
\* which raises ValueError for a name that is not in the enum, and the
\* except clause only logs.
LoadState(f, date) ==
    IF ~f.exists \/ ~f.valid_json THEN RiskMetrics
    ELSE IF f.date = date
    THEN LET loaded == [RiskMetrics EXCEPT
                          !.daily_trades = f.daily_trades, !.daily_pnl = f.daily_pnl,
                          !.daily_wins = f.daily_wins, !.daily_losses = f.daily_losses,
                          !.consecutive_losses = f.consecutive_losses,
                          !.peak_equity = f.peak_equity,
                          !.daily_volume = f.daily_volume]
         IN  IF f.state = "" \/ f.state \notin RiskStates
             THEN loaded
             ELSE [loaded EXCEPT !.state = f.state, !.state_reason = f.state_reason]
    ELSE ResetDailyCounters(RiskMetrics)

\* _halt_trading
HaltTrading(m, reason) == [m EXCEPT !.state = HALTED, !.state_reason = reason]

\* a cooldown that is started on a halted gate too
StartCooldownUnguarded(m) ==
    IF CoolDownMinutes > 0
    THEN [m EXCEPT !.state = COOLDOWN, !.state_reason = "Cooldown after loss"]
    ELSE m

\* _start_cooldown
StartCooldown(m) ==
    IF CoolDownMinutes > 0 /\ m.state # HALTED
    THEN [m EXCEPT !.state = COOLDOWN, !.state_reason = "Cooldown after loss"]
    ELSE m

\* _get_cooldown_remaining, in minutes
CooldownRemaining(m, t) ==
    IF m.last_loss_time = None THEN 0
    ELSE Max(0, (m.last_loss_time + CoolDownMinutes) - t)

\* limits checked without the drawdown
CheckRiskLimitsNoDrawdown(m) ==
    IF m.daily_pnl <= -Pts(MaxDailyLoss)
    THEN HaltTrading(m, "Daily loss limit reached")
    ELSE IF m.consecutive_losses >= MaxConsecutiveLosses
    THEN HaltTrading(m, "Consecutive loss limit reached")
    ELSE m

\* limits checked with the consecutive losses allowed to reach the maximum
CheckRiskLimitsOneMoreLoss(m) ==
    IF m.daily_pnl <= -Pts(MaxDailyLoss)
    THEN HaltTrading(m, "Daily loss limit reached")
    ELSE IF m.consecutive_losses > MaxConsecutiveLosses
    THEN HaltTrading(m, "Consecutive loss limit reached")
    ELSE IF m.current_drawdown >= MaxDrawdownPercent
    THEN HaltTrading(m, "Maximum drawdown reached")
    ELSE m

\* _check_risk_limits
CheckRiskLimits(m) ==
    IF m.daily_pnl <= -Pts(MaxDailyLoss)
    THEN HaltTrading(m, "Daily loss limit reached")
    ELSE IF m.consecutive_losses >= MaxConsecutiveLosses
    THEN HaltTrading(m, "Consecutive loss limit reached")
    ELSE IF m.current_drawdown >= MaxDrawdownPercent
    THEN HaltTrading(m, "Maximum drawdown reached")
    ELSE m

(***************************************************************************)
(* check_pre_trade, can_trade                                              *)
(***************************************************************************)
Reason(text, detail, remaining) ==
    [text |-> text, state_reason |-> detail, remaining |-> remaining]

OK == Reason("OK", "", 0)

Answer(allowed, reason, m) == [allowed |-> allowed, reason |-> reason, m |-> m]

\* the parameter checks of check_pre_trade, from the position size on
\* (lines 209-250); they read the metrics and never change them
CheckTradeParameters(m, direction, entry, stop, target, quantity, confidence) ==
    LET stop_distance == Abs(entry - stop)
        target_distance == Abs(target - entry)
        \* risk_reward = target_distance / stop_distance if stop_distance > 0 else 0
        rr_below_min == IF stop_distance > 0
                        THEN target_distance < config.min_risk_reward * stop_distance
                        ELSE 0 < config.min_risk_reward
    IN  IF quantity > MaxPositionSize
        THEN Answer(FALSE, Reason("Position size exceeds max", "", 0), m)
        ELSE IF stop_distance < Pts(config.stop_loss_min)
        THEN Answer(FALSE, Reason("Stop too tight", "", 0), m)
        ELSE IF stop_distance > Pts(config.stop_loss_max)
        THEN Answer(FALSE, Reason("Stop too wide", "", 0), m)
        ELSE IF rr_below_min
        THEN Answer(FALSE, Reason("R/R below min", "", 0), m)
        ELSE IF confidence < ConfidenceThreshold
        THEN Answer(FALSE, Reason("Confidence below threshold", "", 0), m)
        ELSE IF direction = "LONG" /\ stop >= entry
        THEN Answer(FALSE, Reason("LONG stop must be below entry", "", 0), m)
        ELSE IF direction = "SHORT" /\ stop <= entry
        THEN Answer(FALSE, Reason("SHORT stop must be above entry", "", 0), m)
        ELSE IF direction = "LONG" /\ target <= entry
        THEN Answer(FALSE, Reason("LONG target must be above entry", "", 0), m)
        ELSE IF direction = "SHORT" /\ target >= entry
        THEN Answer(FALSE, Reason("SHORT target must be below entry", "", 0), m)
        ELSE IF m.daily_volume + quantity > DailyVolumeCap
        THEN Answer(FALSE, Reason("Daily volume limit would be exceeded", "", 0), m)
        ELSE Answer(TRUE, OK, m)

\* the limit checks with the consecutive losses tested before the daily loss
CheckLimitsLossesFirst(m, direction, entry, stop, target, quantity, confidence) ==
    IF m.daily_trades >= MaxDailyTrades
    THEN Answer(FALSE, Reason("Daily trade limit reached", "", 0), m)
    ELSE IF m.consecutive_losses >= MaxConsecutiveLosses
    THEN Answer(FALSE, Reason("Consecutive loss limit", "", 0),
                HaltTrading(m, "Consecutive loss limit reached"))
    ELSE IF m.daily_pnl <= -Pts(MaxDailyLoss)
    THEN Answer(FALSE, Reason("Daily loss limit reached", "", 0),
                HaltTrading(m, "Daily loss limit reached"))
    ELSE CheckTradeParameters(m, direction, entry, stop, target, quantity,
                              confidence)

\* check_pre_trade after the state and cooldown checks
CheckLimits(m, direction, entry, stop, target, quantity, confidence) ==
    IF m.daily_trades >= MaxDailyTrades
    THEN Answer(FALSE, Reason("Daily trade limit reached", "", 0), m)
    ELSE IF m.daily_pnl <= -Pts(MaxDailyLoss)
    THEN Answer(FALSE, Reason("Daily loss limit reached", "", 0),
                HaltTrading(m, "Daily loss limit reached"))
    ELSE IF m.consecutive_losses >= MaxConsecutiveLosses
    THEN Answer(FALSE, Reason("Consecutive loss limit", "", 0),
                HaltTrading(m, "Consecutive loss limit reached"))
    ELSE CheckTradeParameters(m, direction, entry, stop, target, quantity, confidence)

\* a check_pre_trade that leaves an expired cooldown in place
CheckPreTradeKeepsCooldown(m, t, direction, entry, stop, target, quantity, confidence) ==
    IF m.state = HALTED
    THEN Answer(FALSE, Reason("Trading halted", m.state_reason, 0), m)
    ELSE IF m.state = COOLDOWN /\ CooldownRemaining(m, t) > 0
    THEN Answer(FALSE, Reason("Cooldown active", "", CooldownRemaining(m, t)), m)
    ELSE CheckLimits(m, direction, entry, stop, target, quantity, confidence)

\* check_pre_trade at time t: the answer and the metrics it leaves
CheckPreTrade(m, t, direction, entry, stop, target, quantity, confidence) ==
    IF m.state = HALTED
    THEN Answer(FALSE, Reason("Trading halted", m.state_reason, 0), m)
    ELSE IF m.state = COOLDOWN /\ CooldownRemaining(m, t) > 0
    THEN Answer(FALSE, Reason("Cooldown active", "", CooldownRemaining(m, t)), m)
    ELSE IF m.state = COOLDOWN
    THEN CheckLimits([m EXCEPT !.state = NORMAL, !.state_reason = ""],
                     direction, entry, stop, target, quantity, confidence)
    ELSE CheckLimits(m, direction, entry, stop, target, quantity, confidence)

\* a can_trade that rejects a gate in COOLDOWN whether or not the cooldown
\* has run out
CanTradeAnyCooldown(m, t) ==
    IF m.state = HALTED
    THEN Answer(FALSE, Reason("Trading halted", m.state_reason, 0), m)
    ELSE IF m.state = COOLDOWN
    THEN Answer(FALSE, Reason("Cooldown", "", CooldownRemaining(m, t)), m)
    ELSE IF m.daily_trades >= MaxDailyTrades
    THEN Answer(FALSE, Reason("Daily trade limit reached", "", 0), m)
    ELSE Answer(TRUE, OK, m)

\* can_trade at time t
CanTrade(m, t) ==
    IF m.state = HALTED
    THEN Answer(FALSE, Reason("Trading halted", m.state_reason, 0), m)
    ELSE IF m.state = COOLDOWN /\ CooldownRemaining(m, t) > 0
    THEN Answer(FALSE, Reason("Cooldown", "", CooldownRemaining(m, t)), m)
    ELSE IF m.daily_trades >= MaxDailyTrades
    THEN Answer(FALSE, Reason("Daily trade limit reached", "", 0), m)
    ELSE Answer(TRUE, OK, m)

\* a record_trade_entry that books the trade at thirty times the quantity
\* check_pre_trade was asked about
RecordTradeEntryOtherQuantity(m, t, quantity) ==
    [m EXCEPT !.daily_trades = @ + 1, !.daily_volume = @ + 30 * quantity,
              !.open_positions = @ + 1]

\* record_trade_entry at time t (the metrics before _save_state)
RecordTradeEntry(m, t, quantity) ==
    [m EXCEPT !.daily_trades = @ + 1, !.daily_volume = @ + quantity,
              !.open_positions = @ + 1]

\* the drawdown in whole percent, rounded down: the code compares the float
\* (peak - current) / peak * 100 with max_drawdown_percent, a whole number
Drawdown(peak, current) == ((peak - current) * 100) \div peak

\* record_trade_exit at time t (the metrics before _save_state)
RecordTradeExit(m, t, direction, entry_price, exit_price, quantity, result) ==
    LET pnl == IF direction = "LONG"
               THEN (exit_price - entry_price) * quantity
               ELSE (entry_price - exit_price) * quantity
        m1 == [m EXCEPT !.daily_pnl = @ + pnl,
                        !.open_positions = Max(0, @ - 1)]
        m2 == IF result = "WIN"
              THEN [m1 EXCEPT !.daily_wins = @ + 1, !.consecutive_losses = 0]
              ELSE IF result = "LOSS"
              THEN StartCooldown([m1 EXCEPT !.daily_losses = @ + 1,
                                            !.consecutive_losses = @ + 1,
                                            !.last_loss_time = t])
              ELSE m1
        equity == m2.current_equity + pnl
        peak == IF equity > m2.peak_equity THEN equity ELSE m2.peak_equity
        m3 == [m2 EXCEPT !.current_equity = equity, !.peak_equity = peak,
                         !.current_drawdown =
                             IF peak > 0 THEN Drawdown(peak, equity) ELSE @]
    IN  CheckRiskLimits(m3)

\* resume_trading: the metrics it leaves (it saves only when it was halted)
Min(a, b) == IF a < b THEN a ELSE b

\* a get_position_size whose second reduction is skipped when the first
\* one was applied
GetPositionSizeHalvesOnce(m, base_size) ==
    LET size0 == Min(base_size, MaxPositionSize)
    IN  IF m.consecutive_losses >= 2 THEN Max(1, size0 \div 2)
        ELSE IF m.daily_trades >= MaxDailyTrades - 1 THEN Max(1, size0 \div 2)
        ELSE size0

\* get_position_size: size is assigned up to three times; // and \div
\* both round towards minus infinity
GetPositionSize(m, base_size) ==
    LET size0 == Min(base_size, MaxPositionSize)
        size1 == IF m.consecutive_losses >= 2 THEN Max(1, size0 \div 2) ELSE size0
        size2 == IF m.daily_trades >= MaxDailyTrades - 1
                 THEN Max(1, size1 \div 2) ELSE size1
    IN  size2

\* a resume_trading that also forgets the losing streak
ResumeTradingResetsLosses(m) ==
    IF m.state = HALTED
    THEN [m EXCEPT !.state = NORMAL, !.state_reason = "", !.consecutive_losses = 0]
    ELSE m

ResumeTrading(m) ==
    IF m.state = HALTED
    THEN [m EXCEPT !.state = NORMAL, !.state_reason = ""]
    ELSE m

(***************************************************************************)
(* The gate as a state machine: one action per public call, the process    *)
(* restart (the constructor's _load_state) and the passing of time.        *)
(***************************************************************************)
Directions == {"LONG", "SHORT"}
Results == {"WIN", "LOSS", "BREAKEVEN"}

\* arguments explored for check_pre_trade
EntryPrice == Pts(100)
StopPrices == {Pts(100), Pts(90), Pts(80), Pts(40), Pts(120)}
TargetPrices == {Pts(160), Pts(130), Pts(40)}
CheckQuantities == {1, MaxPositionSize, MaxPositionSize + 1}
Confidences == {50, 70}

\* arguments explored for record_trade_entry and record_trade_exit
EntryQuantities == {DailyVolumeCap - 5}
Exit(direction, entry_price, exit_price, quantity, result) ==
    [direction |-> direction, entry_price |-> entry_price,
     exit_price |-> exit_price, quantity |-> quantity, result |-> result]

\* the closed trades reported to the gate: wins of 60 points, losses of 120
\* and of 30 points, long and short, and a trade closed at its entry price
ExitInputs ==
    {Exit("LONG", EntryPrice, Pts(160), 1, "WIN"),
     Exit("SHORT", EntryPrice, Pts(70), 2, "WIN"),
     Exit("LONG", EntryPrice, Pts(40), 2, "LOSS"),
     Exit("SHORT", EntryPrice, Pts(130), 1, "LOSS"),
     Exit("LONG", EntryPrice, EntryPrice, 1, "BREAKEVEN")}

NoReq == [direction |-> "", entry |-> 0, stop |-> 0, target |-> 0,
          quantity |-> 0, confidence |-> 0]

Call(op, allowed, reason, result) ==
    [op |-> op, allowed |-> allowed, reason |-> reason, result |-> result]

NoHist ==
    [records |-> 0, fresh_losses |-> 0, cooldown_until |-> None,
     activity_today |-> FALSE]

\* the history h after a call `op` made at the current time
HistOf(h, op, result, m2) ==
    [records |-> h.records
                 + (IF op \in {"record_trade_entry", "record_trade_exit"}
                    THEN 1 ELSE 0),
     \* n while the gate's whole history is n LOSS exits on a fresh gate,
     \* followed (from MaxConsecutiveLosses on) by check_pre_trade calls,
     \* with time passing anywhere in between
     fresh_losses |->
        IF op = "record_trade_exit" /\ result = "LOSS"
           /\ h.fresh_losses >= 0 /\ h.fresh_losses < MaxConsecutiveLosses
        THEN h.fresh_losses + 1
        ELSE IF op = "time"
                \/ (op = "check_pre_trade"
                    /\ h.fresh_losses = MaxConsecutiveLosses)
        THEN h.fresh_losses
        ELSE None,
     \* the end of the cooldown started by the last loss that left the gate
     \* in COOLDOWN; a restart on a later day forgets it
     cooldown_until |->
        IF op = "record_trade_exit" /\ result = "LOSS" /\ m2.state = COOLDOWN
        THEN now + CoolDownMinutes
        ELSE IF op = "__init__" /\ state_file.exists /\ state_file.date # today
        THEN None
        ELSE h.cooldown_until,
     activity_today |->
        h.activity_today \/ op \in {"record_trade_entry", "record_trade_exit"}]

\* the history after a call `op` made in the current state
Hist(op, result, m2) == HistOf(hist, op, result, m2)

RiskInit ==
    /\ metrics = RiskMetrics
    /\ state_file = NoFile
    /\ now = 0
    /\ today = 0
    /\ ret = Call("__init__", TRUE, OK, "")
    /\ req = NoReq
    /\ hist = NoHist
    /\ config = RiskConfig

\* EnterpriseRiskManager.__init__ of a restarted process: _load_state
Restart ==
    LET m2 == LoadState(state_file, today)
    IN  /\ metrics' = m2
        /\ ret' = Call("__init__", TRUE, OK, "")
        /\ req' = NoReq
        /\ hist' = Hist("__init__", "", m2)
        /\ UNCHANGED <<state_file, now, today, zoneVars, orch, config, trade, breaker, clock>>

Request(direction, entry, stop, target, quantity, confidence) ==
    [direction |-> direction, entry |-> entry, stop |-> stop, target |-> target,
     quantity |-> quantity, confidence |-> confidence]

\* the requests put to the gate while its state machine is explored: one
\* that passes every parameter check, one that the volume cap can stop and
\* one that fails a parameter check
GateRequests ==
    {Request("LONG", EntryPrice, Pts(80), Pts(160), 1, 70),
     Request("SHORT", EntryPrice, Pts(120), Pts(40), MaxPositionSize, 70),
     Request("LONG", EntryPrice, Pts(80), Pts(160), 1, 50)}

CheckPreTradeCall ==
    \E r \in GateRequests :
        LET a == CheckPreTrade(metrics, now, r.direction, r.entry, r.stop,
                               r.target, r.quantity, r.confidence)
        IN  /\ metrics' = a.m
            /\ ret' = Call("check_pre_trade", a.allowed, a.reason, "")
            /\ req' = r
            /\ hist' = Hist("check_pre_trade", "", a.m)
            /\ UNCHANGED <<state_file, now, today, zoneVars, orch, config, trade, breaker, clock>>

CanTradeCall ==
    LET a == CanTrade(metrics, now)
    IN  /\ metrics' = a.m
        /\ ret' = Call("can_trade", a.allowed, a.reason, "")
        /\ req' = NoReq
        /\ hist' = Hist("can_trade", "", a.m)
        /\ UNCHANGED <<state_file, now, today, zoneVars, orch, config, trade, breaker, clock>>

RecordTradeEntryCall ==
    /\ hist.records < MaxRecords
    /\ \E quantity \in EntryQuantities :
        LET m2 == RecordTradeEntry(metrics, now, quantity)
        IN  /\ metrics' = m2
            /\ state_file' = SaveState(m2, today)
            /\ ret' = Call("record_trade_entry", TRUE, OK, "")
            /\ req' = NoReq
            /\ hist' = Hist("record_trade_entry", "", m2)
            /\ UNCHANGED <<now, today, zoneVars, orch, config, trade, breaker, clock>>

RecordTradeExitCall ==
    /\ hist.records < MaxRecords
    /\ \E x \in ExitInputs :
        LET m2 == RecordTradeExit(metrics, now, x.direction, x.entry_price,
                                  x.exit_price, x.quantity, x.result)
        IN  /\ metrics' = m2
            /\ state_file' = SaveState(m2, today)
            /\ ret' = Call("record_trade_exit", TRUE, OK, x.result)
            /\ req' = NoReq
            /\ hist' = Hist("record_trade_exit", x.result, m2)
            /\ UNCHANGED <<now, today, zoneVars, orch, config, trade, breaker, clock>>

ResumeTradingCall ==
    LET m2 == ResumeTrading(metrics)
    IN  /\ metrics' = m2
        /\ state_file' = IF metrics.state = HALTED
                         THEN SaveState(m2, today) ELSE state_file
        /\ ret' = Call("resume_trading", metrics.state = HALTED, OK, "")
        /\ req' = NoReq
        /\ hist' = Hist("resume_trading", "", m2)
        /\ UNCHANGED <<now, today, zoneVars, orch, config, trade, breaker, clock>>

\* a minute passes within the day
Tick ==
    /\ now < MaxTime
    /\ now' = now + 1
    /\ ret' = Call("time", TRUE, OK, "")
    /\ req' = NoReq
    /\ hist' = Hist("time", "", metrics)
    /\ UNCHANGED <<metrics, state_file, today, zoneVars, orch, config, trade, breaker, clock>>

\* a minute passes and the date changes; the running process does nothing
Midnight ==
    /\ now < MaxTime
    /\ today < MaxDays
    /\ now' = now + 1
    /\ today' = today + 1
    /\ ret' = Call("time", TRUE, OK, "")
    /\ req' = NoReq
    /\ hist' = [Hist("time", "", metrics) EXCEPT !.activity_today = FALSE]
    /\ UNCHANGED <<metrics, state_file, zoneVars, orch, config, trade, breaker, clock>>

(***************************************************************************)
(* FairValueGaps: the registry of gap zones.  df is HistoricalData.csv as  *)
(* read_historical_data returns it, a bar's DateTime being its position;   *)
(* active_fvgs is the list of zones; last_processed is                     *)
(* last_processed_bar_time.                                                *)
(***************************************************************************)
MaxBars == 4                    \* bars the historical file grows to
MaxLiveBars == 5                \* and under the live orchestrator
MinGapSize == 5                 \* minimum gap size, points

Levels == {Pts(100), Pts(103), Pts(105), Pts(112)}

Bar(high, low) == [High |-> high, Low |-> low]
\* a bar's low is not above its high
Bars == {bar \in {Bar(h, l) : h \in Levels, l \in Levels} : bar.Low <= bar.High}

Fvg(type, top, bottom, index) ==
    [type |-> type, top |-> top, bottom |-> bottom, gap_size |-> top - bottom,
     index |-> index, filled |-> FALSE]

\* a detection that wants the gap strictly larger than the minimum
GapAtStrict(d, i) ==
    LET candle1 == d[i - 2]
        candle3 == d[i]
    IN  IF candle3.Low > candle1.High
        THEN IF candle3.Low - candle1.High > Pts(MinGapSize)
             THEN <<Fvg("bullish", candle3.Low, candle1.High, i)>>
             ELSE <<>>
        ELSE IF candle3.High < candle1.Low
        THEN IF candle1.Low - candle3.High > Pts(MinGapSize)
             THEN <<Fvg("bearish", candle1.Low, candle3.High, i)>>
             ELSE <<>>
        ELSE <<>>

\* the gap closed by the candle at position i, as a list of none or one zone
\* (the loop body of find_fvgs_in_data, and find_new_fvgs before insertion)
GapAt(d, i) ==
    LET candle1 == d[i - 2]
        candle3 == d[i]
    IN  IF candle3.Low > candle1.High
        THEN IF candle3.Low - candle1.High >= Pts(MinGapSize)
             THEN <<Fvg("bullish", candle3.Low, candle1.High, i)>>
             ELSE <<>>
        ELSE IF candle3.High < candle1.Low
        THEN IF candle1.Low - candle3.High >= Pts(MinGapSize)
             THEN <<Fvg("bearish", candle1.Low, candle3.High, i)>>
             ELSE <<>>
        ELSE <<>>

RECURSIVE FindFvgsFrom(_, _)
FindFvgsFrom(d, i) ==
    IF i > Len(d) THEN <<>> ELSE GapAt(d, i) \o FindFvgsFrom(d, i + 1)

\* find_fvgs_in_data with start_index=2 (the third bar)
FindFvgsInData(d) == FindFvgsFrom(d, 3)

\* is_fvg_filled
IsFvgFilled(fvg, d, start_index) ==
    \E j \in (start_index + 1)..Len(d) :
        \/ fvg.type = "bullish" /\ d[j].Low <= fvg.bottom
        \/ fvg.type = "bearish" /\ d[j].High >= fvg.top

\* zones_overlap
ZonesOverlap(zone1_bottom, zone1_top, zone2_bottom, zone2_top) ==
    IF zone1_bottom >= zone2_top \/ zone2_bottom >= zone1_top
    THEN FALSE ELSE TRUE

RECURSIVE Pop(_, _, _)
\* the list fvgs from position i on without the positions in zones_to_remove
Pop(fvgs, zones_to_remove, i) ==
    IF i > Len(fvgs) THEN <<>>
    ELSE (IF i \in zones_to_remove THEN <<>> ELSE <<fvgs[i]>>)
            \o Pop(fvgs, zones_to_remove, i + 1)

\* an is_duplicate_zone that pops the larger zones as it meets them, also
\* when a later zone makes it answer True
IsDuplicateZonePopsMarked(fvgs, new_fvg) ==
    LET hits == {i \in 1..Len(fvgs) :
                    /\ fvgs[i].type = new_fvg.type
                    /\ ~fvgs[i].filled
                    /\ ZonesOverlap(fvgs[i].bottom, fvgs[i].top,
                                    new_fvg.bottom, new_fvg.top)}
        stops == {i \in hits : ~(new_fvg.gap_size < fvgs[i].gap_size)}
    IN  IF stops # {}
        THEN [duplicate |-> TRUE,
              fvgs |-> Pop(fvgs, {i \in hits : \A j \in stops : i < j}, 1)]
        ELSE [duplicate |-> FALSE, fvgs |-> Pop(fvgs, hits, 1)]

\* an is_duplicate_zone for which a new zone of the same size wins
IsDuplicateZoneTieReplaces(fvgs, new_fvg) ==
    LET hits == {i \in 1..Len(fvgs) :
                    /\ fvgs[i].type = new_fvg.type
                    /\ ~fvgs[i].filled
                    /\ ZonesOverlap(fvgs[i].bottom, fvgs[i].top,
                                    new_fvg.bottom, new_fvg.top)}
    IN  IF \E i \in hits : ~(new_fvg.gap_size <= fvgs[i].gap_size)
        THEN [duplicate |-> TRUE, fvgs |-> fvgs]
        ELSE [duplicate |-> FALSE, fvgs |-> Pop(fvgs, hits, 1)]

\* an is_duplicate_zone that drops nothing from the list
IsDuplicateZoneKeepsLarger(fvgs, new_fvg) ==
    LET hits == {i \in 1..Len(fvgs) :
                    /\ fvgs[i].type = new_fvg.type
                    /\ ~fvgs[i].filled
                    /\ ZonesOverlap(fvgs[i].bottom, fvgs[i].top,
                                    new_fvg.bottom, new_fvg.top)}
    IN  IF \E i \in hits : ~(new_fvg.gap_size < fvgs[i].gap_size)
        THEN [duplicate |-> TRUE, fvgs |-> fvgs]
        ELSE [duplicate |-> FALSE, fvgs |-> fvgs]

\* is_duplicate_zone: the answer and the list it leaves.  The loop returns
\* True at the first overlapping zone that is not larger than the new one,
\* before anything is popped; otherwise every overlapping zone is popped.
IsDuplicateZone(fvgs, new_fvg) ==
    LET hits == {i \in 1..Len(fvgs) :
                    /\ fvgs[i].type = new_fvg.type
                    /\ ~fvgs[i].filled
                    /\ ZonesOverlap(fvgs[i].bottom, fvgs[i].top,
                                    new_fvg.bottom, new_fvg.top)}
    IN  IF \E i \in hits : ~(new_fvg.gap_size < fvgs[i].gap_size)
        THEN [duplicate |-> TRUE, fvgs |-> fvgs]
        ELSE [duplicate |-> FALSE, fvgs |-> Pop(fvgs, hits, 1)]

\* if not self.is_duplicate_zone(fvg): self.active_fvgs.append(fvg)
Insert(fvgs, fvg) ==
    LET r == IsDuplicateZone(fvgs, fvg)
    IN  IF r.duplicate THEN r.fvgs ELSE Append(r.fvgs, fvg)

RECURSIVE InsertUnfilled(_, _, _, _)
\* the loop of load_historical_fvgs over historical_fvgs from position k
InsertUnfilled(fvgs, historical_fvgs, d, k) ==
    IF k > Len(historical_fvgs) THEN fvgs
    ELSE LET fvg == historical_fvgs[k]
         IN  InsertUnfilled(IF IsFvgFilled(fvg, d, fvg.index) THEN fvgs
                            ELSE Insert(fvgs, fvg),
                            historical_fvgs, d, k + 1)

\* load_historical_fvgs
LoadHistoricalFvgs(fvgs, d) ==
    IF Len(d) < 3 THEN fvgs
    ELSE InsertUnfilled(fvgs, FindFvgsInData(d), d, 1)

\* a clean_old_fvgs that also drops the oldest unfilled zone when more than
\* one zone is left
CleanOldFvgsOldestOut(fvgs) ==
    LET cleaned_fvgs == SelectSeq(fvgs, LAMBDA fvg : ~fvg.filled)
    IN  IF Len(cleaned_fvgs) > 1 THEN Tail(cleaned_fvgs) ELSE cleaned_fvgs

\* clean_old_fvgs
CleanOldFvgs(fvgs) == SelectSeq(fvgs, LAMBDA fvg : ~fvg.filled)

\* find_new_fvgs
FindNewFvgs(fvgs, d, current_index) ==
    IF current_index < 3 THEN fvgs
    ELSE LET found == GapAt(d, current_index)
         IN  CleanOldFvgs(IF found = <<>> THEN fvgs ELSE Insert(fvgs, found[1]))

\* a check_fvg_fill_status that tests the far side of the zone
CheckFvgFillStatusFarSide(fvgs, d, current_index) ==
    LET current_bar == d[current_index]
    IN  [i \in 1..Len(fvgs) |->
            IF fvgs[i].filled THEN fvgs[i]
            ELSE IF fvgs[i].type = "bullish" /\ current_bar.High >= fvgs[i].top
            THEN [fvgs[i] EXCEPT !.filled = TRUE]
            ELSE IF fvgs[i].type = "bearish" /\ current_bar.Low <= fvgs[i].bottom
            THEN [fvgs[i] EXCEPT !.filled = TRUE]
            ELSE fvgs[i]]

\* check_fvg_fill_status
CheckFvgFillStatus(fvgs, d, current_index) ==
    LET current_bar == d[current_index]
    IN  [i \in 1..Len(fvgs) |->
            IF fvgs[i].filled THEN fvgs[i]
            ELSE IF fvgs[i].type = "bullish" /\ current_bar.Low <= fvgs[i].bottom
            THEN [fvgs[i] EXCEPT !.filled = TRUE]
            ELSE IF fvgs[i].type = "bearish" /\ current_bar.High >= fvgs[i].top
            THEN [fvgs[i] EXCEPT !.filled = TRUE]
            ELSE fvgs[i]]

\* a check_live_fvg_fills that cuts a zone the price has entered down to
\* the part the price has not reached
CheckLiveFvgFillsTrims(fvgs, current_price) ==
    [i \in 1..Len(fvgs) |->
        IF fvgs[i].filled THEN fvgs[i]
        ELSE IF fvgs[i].type = "bearish" /\ current_price >= fvgs[i].top
        THEN [fvgs[i] EXCEPT !.filled = TRUE]
        ELSE IF fvgs[i].type = "bullish" /\ current_price <= fvgs[i].bottom
        THEN [fvgs[i] EXCEPT !.filled = TRUE]
        ELSE IF fvgs[i].type = "bearish" /\ current_price > fvgs[i].bottom
        THEN [fvgs[i] EXCEPT !.bottom = current_price,
                             !.gap_size = fvgs[i].top - current_price]
        ELSE IF fvgs[i].type = "bullish" /\ current_price < fvgs[i].top
        THEN [fvgs[i] EXCEPT !.top = current_price,
                             !.gap_size = current_price - fvgs[i].bottom]
        ELSE fvgs[i]]

\* check_live_fvg_fills
CheckLiveFvgFills(fvgs, current_price) ==
    [i \in 1..Len(fvgs) |->
        IF fvgs[i].filled THEN fvgs[i]
        ELSE IF fvgs[i].type = "bearish" /\ current_price >= fvgs[i].top
        THEN [fvgs[i] EXCEPT !.filled = TRUE]
        ELSE IF fvgs[i].type = "bullish" /\ current_price <= fvgs[i].bottom
        THEN [fvgs[i] EXCEPT !.filled = TRUE]
        ELSE fvgs[i]]

\* process_historical_bars: the list and last_processed_bar_time it leaves
ProcessHistoricalBars(fvgs, d, last_processed_bar_time) ==
    IF Len(d) < 3 \/ last_processed_bar_time = Len(d)
    THEN [fvgs |-> fvgs, last_processed_bar_time |-> last_processed_bar_time]
    ELSE [fvgs |-> CheckFvgFillStatus(FindNewFvgs(fvgs, d, Len(d)), d, Len(d)),
          last_processed_bar_time |-> Len(d)]

ZoneIdle ==
    /\ active_fvgs = <<>>
    /\ df = <<>>
    /\ fvg_phase = "offline"
    /\ last_processed = None

\* the platform appends a completed bar, one of bars, to HistoricalData.csv
\* while it holds fewer than max_bars rows
AppendBarFrom(bars, max_bars) ==
    /\ Len(df) < max_bars
    /\ \E bar \in bars : df' = Append(df, bar)
    /\ UNCHANGED <<active_fvgs, fvg_phase, last_processed, riskVars, orch, trade, breaker, clock>>

AppendBar == AppendBarFrom(Bars, MaxBars)

\* startup: load_historical_fvgs on the empty registry
LoadHistoricalFvgsCall ==
    /\ fvg_phase = "offline"
    /\ active_fvgs' = LoadHistoricalFvgs(active_fvgs, df)
    /\ fvg_phase' = "live"
    /\ UNCHANGED <<df, last_processed, riskVars, orch, trade, breaker, clock>>

\* process_historical_bars
ProcessHistoricalBarsCall ==
    /\ fvg_phase = "live"
    /\ LET r == ProcessHistoricalBars(active_fvgs, df, last_processed)
       IN  /\ active_fvgs' = r.fvgs
           /\ last_processed' = r.last_processed_bar_time
    /\ UNCHANGED <<df, fvg_phase, riskVars, orch, trade, breaker, clock>>

\* the loops call process_historical_bars before they read the price: once
\* the file holds three bars, the first price is read after the first call
PriceRead == last_processed # None \/ Len(df) < 3

\* the live price part of _process_bar in main.py: check_live_fvg_fills
LivePrice ==
    /\ fvg_phase = "live"
    /\ PriceRead
    /\ \E current_price \in Levels :
        active_fvgs' = CheckLiveFvgFills(active_fvgs, current_price)
    /\ UNCHANGED <<df, fvg_phase, last_processed, riskVars, orch, trade, breaker, clock>>

\* the live price part of FVGDisplay.run: check_live_fvg_fills, then
\* clean_old_fvgs when the historical file has rows
DisplayPrice ==
    /\ fvg_phase = "live"
    /\ PriceRead
    /\ \E current_price \in Levels :
        LET fvgs == CheckLiveFvgFills(active_fvgs, current_price)
        IN  active_fvgs' = IF Len(df) > 0 THEN CleanOldFvgs(fvgs) ELSE fvgs
    /\ UNCHANGED <<df, fvg_phase, last_processed, riskVars, orch, trade, breaker, clock>>

ZoneNext ==
    \/ AppendBar
    \/ LoadHistoricalFvgsCall
    \/ ProcessHistoricalBarsCall
    \/ LivePrice
    \/ DisplayPrice


(***************************************************************************)
(* src/src/fvg_analyzer.py: the decision context built from the registry.  *)
(* An Optional[Dict] is a list of none or one zone.                        *)
(***************************************************************************)
TradingMinGapSize == 5          \* trading.min_gap_size, points
MaxGapAgeBars == 1000           \* trading_params.max_gap_age_bars

\* fvg.get('age_bars', 0)
AgeBars(fvg) == IF "age_bars" \in DOMAIN fvg THEN fvg.age_bars ELSE 0

\* the fvg_data dict of parse_fvg_zones (index stands for datetime as well)
FvgData(fvg) ==
    [top |-> fvg.top, bottom |-> fvg.bottom, size |-> fvg.gap_size,
     age_bars |-> AgeBars(fvg), index |-> fvg.index]

\* a parse_fvg_zones that passes filled zones on
ParseFvgZonesKeepsFilled(fvgs) ==
    LET OfType(type) == SelectSeq(fvgs, LAMBDA fvg : fvg.type = type)
        Data(zones) == [i \in 1..Len(zones) |-> FvgData(zones[i])]
    IN  [bullish |-> Data(OfType("bullish")), bearish |-> Data(OfType("bearish"))]

\* parse_fvg_zones
ParseFvgZones(fvgs) ==
    LET OfType(type) == SelectSeq(fvgs, LAMBDA fvg : ~fvg.filled /\ fvg.type = type)
        Data(zones) == [i \in 1..Len(zones) |-> FvgData(zones[i])]
    IN  [bullish |-> Data(OfType("bullish")), bearish |-> Data(OfType("bearish"))]

\* a calculate_distance that measures both types to the far edge
CalculateDistanceFarEdge(current_price, fvg, fvg_type) ==
    IF fvg_type = "bullish" THEN fvg.bottom - current_price
    ELSE fvg.top - current_price

\* calculate_distance
CalculateDistance(current_price, fvg, fvg_type) ==
    IF fvg_type = "bullish" THEN fvg.top - current_price
    ELSE fvg.bottom - current_price

\* {**fvg, 'distance': ..., 'distance_abs': ...} for each zone of the list
WithDistance(current_price, zones, fvg_type) ==
    [i \in 1..Len(zones) |->
        [top |-> zones[i].top, bottom |-> zones[i].bottom,
         size |-> zones[i].size, age_bars |-> zones[i].age_bars,
         index |-> zones[i].index,
         distance |-> CalculateDistance(current_price, zones[i], fvg_type),
         distance_abs |-> Abs(CalculateDistance(current_price, zones[i], fvg_type))]]

\* zones.sort(key=distance_abs); zones[0]: the sort is stable, so the first
\* of the zones at the least distance; None for the empty list
Nearest(zones) ==
    IF zones = <<>> THEN <<>>
    ELSE LET first == CHOOSE i \in 1..Len(zones) :
                        /\ \A j \in 1..Len(zones) :
                                zones[i].distance_abs <= zones[j].distance_abs
                        /\ \A j \in 1..(i - 1) :
                                zones[j].distance_abs > zones[i].distance_abs
         IN  <<zones[first]>>

\* a find_nearest_fvgs that takes the nearest zone of either side of price
FindNearestFvgsAnySide(current_price, fvg_zones) ==
    [nearest_bullish |->
        Nearest(WithDistance(current_price, fvg_zones.bullish, "bullish")),
     nearest_bearish |->
        Nearest(WithDistance(current_price, fvg_zones.bearish, "bearish"))]

\* find_nearest_fvgs
FindNearestFvgs(current_price, fvg_zones) ==
    LET bullish_below == SelectSeq(fvg_zones.bullish,
                                   LAMBDA fvg : fvg.top < current_price)
        bearish_above == SelectSeq(fvg_zones.bearish,
                                   LAMBDA fvg : fvg.bottom > current_price)
    IN  [nearest_bullish |->
            Nearest(WithDistance(current_price, bullish_below, "bullish")),
         nearest_bearish |->
            Nearest(WithDistance(current_price, bearish_above, "bearish"))]

\* check_price_in_zone
CheckPriceInZone(current_price, fvg) ==
    fvg.bottom <= current_price /\ current_price <= fvg.top

\* find_active_zone: the type and index of the first zone that holds the
\* price, bullish zones first
FindActiveZone(current_price, fvg_zones) ==
    LET InZone(zones) == SelectSeq(zones, LAMBDA fvg : CheckPriceInZone(current_price, fvg))
    IN  IF InZone(fvg_zones.bullish) # <<>>
        THEN <<[type |-> "bullish", index |-> InZone(fvg_zones.bullish)[1].index]>>
        ELSE IF InZone(fvg_zones.bearish) # <<>>
        THEN <<[type |-> "bearish", index |-> InZone(fvg_zones.bearish)[1].index]>>
        ELSE <<>>

\* filter_quality_fvgs
FilterQualityFvgs(fvg_zones) ==
    LET Quality(zones) ==
            SelectSeq(zones, LAMBDA fvg : /\ ~(fvg.size < Pts(TradingMinGapSize))
                                          /\ ~(fvg.age_bars > MaxGapAgeBars))
    IN  [bullish |-> Quality(fvg_zones.bullish),
         bearish |-> Quality(fvg_zones.bearish)]

\* analyze_market_context
AnalyzeMarketContext(current_price, fvgs) ==
    LET fvg_zones == ParseFvgZones(fvgs)
        quality_zones == FilterQualityFvgs(fvg_zones)
        nearest == FindNearestFvgs(current_price, quality_zones)
        active_zone == FindActiveZone(current_price, quality_zones)
    IN  [current_price |-> current_price,
         total_bullish_fvgs |-> Len(quality_zones.bullish),
         total_bearish_fvgs |-> Len(quality_zones.bearish),
         nearest_bullish_fvg |-> nearest.nearest_bullish,
         nearest_bearish_fvg |-> nearest.nearest_bearish,
         price_in_zone |-> active_zone,
         all_fvgs |-> quality_zones]

\* no context built yet
NoContext ==
    [current_price |-> None, total_bullish_fvgs |-> 0, total_bearish_fvgs |-> 0,
     nearest_bullish_fvg |-> <<>>, nearest_bearish_fvg |-> <<>>,
     price_in_zone |-> <<>>, all_fvgs |-> [bullish |-> <<>>, bearish |-> <<>>]]

\* active_fvgs = [f for f in fvg_display.active_fvgs if not f.get('filled', False)]
ActiveFvgs(fvgs) == SelectSeq(fvgs, LAMBDA f : ~f.filled)

(***************************************************************************)
(* src/src/exit_strategies.py: ExitPlan and ExitManager.  Multiples of R    *)
(* are in tenths and the partial fractions in percent; the prices fed in    *)
(* are multiples of a quarter point, for which the products are whole.      *)
(***************************************************************************)
PartialAt1rPercent == 33        \* self.partial_at_1r = 0.33
PartialAt2rPercent == 33        \* self.partial_at_2r = 0.33
Target1Tenths == 10             \* risk * 1.0
Target2Tenths == 20             \* risk * 2.0
Target3Tenths == 35             \* risk * 3.5
BreakevenTriggerTenths == 15    \* self.breakeven_trigger_r = 1.5
TrailingTriggerTenths == 20     \* self.trailing_trigger_r = 2.0
TrailingOffsetTenths == 5       \* self.trailing_offset_r = 0.5
MaxHoldBars == 20               \* self.max_hold_bars
SmallLoss == 10                 \* the literal of check_time_exit, points
MomentumRange == 15             \* the literal of detect_reversal, points

\* risk * r for r given in tenths
TimesR(risk, tenths) == (risk * tenths) \div 10

\* int(x) of x = a / b: the fraction is cut off towards zero
IntOf(a, b) == IF a >= 0 THEN a \div b ELSE 0 - ((0 - a) \div b)

\* a create_exit_plan whose runner target is at 3R
CreateExitPlanRunnerAt3R(direction, entry, stop, target, quantity) ==
    LET risk == Abs(entry - stop)
        sign == IF direction = "LONG" THEN 1 ELSE 0 - 1
        qty_1 == Max(1, IntOf(quantity * PartialAt1rPercent, 100))
        qty_2 == Max(1, IntOf(quantity * PartialAt2rPercent, 100))
    IN  [initial_stop |-> stop,
         target_1 |-> entry + sign * TimesR(risk, Target1Tenths),
         target_2 |-> entry + sign * TimesR(risk, Target2Tenths),
         target_3 |-> entry + sign * TimesR(risk, 30),
         trailing_trigger |-> entry + sign * TimesR(risk, TrailingTriggerTenths),
         trailing_offset |-> TimesR(risk, TrailingOffsetTenths),
         breakeven_trigger |-> entry + sign * TimesR(risk, BreakevenTriggerTenths),
         time_limit_bars |-> MaxHoldBars,
         partial_sizes |-> <<qty_1, qty_2, quantity - qty_1 - qty_2>>]

\* create_exit_plan: every direction but "LONG" takes the SHORT branch
CreateExitPlan(direction, entry, stop, target, quantity) ==
    LET risk == Abs(entry - stop)
        qty_1 == Max(1, IntOf(quantity * PartialAt1rPercent, 100))
        qty_2 == Max(1, IntOf(quantity * PartialAt2rPercent, 100))
        qty_3 == quantity - qty_1 - qty_2
    IN  IF direction = "LONG"
        THEN [initial_stop |-> stop,
              target_1 |-> entry + TimesR(risk, Target1Tenths),
              target_2 |-> entry + TimesR(risk, Target2Tenths),
              target_3 |-> entry + TimesR(risk, Target3Tenths),
              trailing_trigger |-> entry + TimesR(risk, TrailingTriggerTenths),
              trailing_offset |-> TimesR(risk, TrailingOffsetTenths),
              breakeven_trigger |-> entry + TimesR(risk, BreakevenTriggerTenths),
              time_limit_bars |-> MaxHoldBars,
              partial_sizes |-> <<qty_1, qty_2, qty_3>>]
        ELSE [initial_stop |-> stop,
              target_1 |-> entry - TimesR(risk, Target1Tenths),
              target_2 |-> entry - TimesR(risk, Target2Tenths),
              target_3 |-> entry - TimesR(risk, Target3Tenths),
              trailing_trigger |-> entry - TimesR(risk, TrailingTriggerTenths),
              trailing_offset |-> TimesR(risk, TrailingOffsetTenths),
              breakeven_trigger |-> entry - TimesR(risk, BreakevenTriggerTenths),
              time_limit_bars |-> MaxHoldBars,
              partial_sizes |-> <<qty_1, qty_2, qty_3>>]

\* a calculate_trailing_stop that trails the current price and moves the
\* stop either way
CalculateTrailingStopFollowsPrice(direction, current_price, entry, current_stop, highest_price, lowest_price, trailing_offset) ==
    IF direction = "LONG"
    THEN LET new_stop == current_price - trailing_offset
         IN  IF new_stop # current_stop /\ new_stop < current_price
             THEN new_stop ELSE None
    ELSE LET new_stop == current_price + trailing_offset
         IN  IF new_stop # current_stop /\ new_stop > current_price
             THEN new_stop ELSE None

\* calculate_trailing_stop: the new stop level, or None
CalculateTrailingStop(direction, current_price, entry, current_stop, highest_price, lowest_price, trailing_offset) ==
    IF direction = "LONG"
    THEN LET new_stop == highest_price - trailing_offset
         IN  IF new_stop > current_stop /\ new_stop < current_price
             THEN new_stop ELSE None
    ELSE LET new_stop == lowest_price + trailing_offset
         IN  IF new_stop < current_stop /\ new_stop > current_price
             THEN new_stop ELSE None

\* should_move_to_breakeven
ShouldMoveToBreakeven(direction, current_price, entry, current_stop, breakeven_trigger) ==
    IF direction = "LONG" /\ current_stop >= entry THEN FALSE
    ELSE IF direction = "SHORT" /\ current_stop <= entry THEN FALSE
    ELSE IF direction = "LONG" THEN current_price >= breakeven_trigger
    ELSE current_price <= breakeven_trigger

\* check_partial_exit: a list of none or one (price, quantity)
CheckPartialExit(direction, current_price, exit_plan, partials_taken) ==
    IF partials_taken >= 2 THEN <<>>
    ELSE LET targets == <<exit_plan.target_1, exit_plan.target_2>>
             target == targets[partials_taken + 1]
             size == exit_plan.partial_sizes[partials_taken + 1]
         IN  IF direction = "LONG"
             THEN IF current_price >= target
                  THEN <<[price |-> target, quantity |-> size]>> ELSE <<>>
             ELSE IF current_price <= target
                  THEN <<[price |-> target, quantity |-> size]>> ELSE <<>>

\* a check_time_exit that closes at the time limit whatever the loss
CheckTimeExitAnyLoss(bars_in_trade, current_pnl, exit_plan) ==
    bars_in_trade >= exit_plan.time_limit_bars

\* check_time_exit
CheckTimeExit(bars_in_trade, current_pnl, exit_plan) ==
    IF bars_in_trade >= exit_plan.time_limit_bars
    THEN IF current_pnl >= 0 THEN TRUE
         ELSE IF current_pnl > 0 - Pts(SmallLoss) THEN TRUE
         ELSE FALSE
    ELSE FALSE

\* a bar of recent_bars
Candle(open, high, low, close) ==
    [Open |-> open, High |-> high, Low |-> low, Close |-> close]

\* detect_reversal; body / bar_range > 0.75 is 4 * body > 3 * bar_range
DetectReversal(direction, current_price, ema21, ema75, recent_bars) ==
    IF Len(recent_bars) < 3 THEN FALSE
    ELSE LET last_bar == recent_bars[Len(recent_bars)]
             prev_close == recent_bars[Len(recent_bars) - 1].Close
             bar_range == last_bar.High - last_bar.Low
             body == Abs(last_bar.Close - last_bar.Open)
         IN  IF direction = "LONG"
             THEN IF current_price < ema75 /\ prev_close > ema75 THEN TRUE
                  ELSE /\ bar_range > 0
                       /\ last_bar.Close < last_bar.Open
                       /\ 4 * body > 3 * bar_range
                       /\ bar_range > Pts(MomentumRange)
             ELSE IF current_price > ema75 /\ prev_close < ema75 THEN TRUE
                  ELSE /\ bar_range > 0
                       /\ last_bar.Close > last_bar.Open
                       /\ 4 * body > 3 * bar_range
                       /\ bar_range > Pts(MomentumRange)

\* the actions dictionary of get_exit_recommendation
Actions(move_stop, take_partial, close_position, close_reason) ==
    [move_stop |-> move_stop, take_partial |-> take_partial,
     close_position |-> close_position, close_reason |-> close_reason]

\* a get_exit_recommendation that works through the partial exit and the
\* stop before it closes for a reversal
GetExitRecommendationClosesLast(direction, entry, current_price, current_stop, exit_plan, partials_taken, bars_in_trade, highest_since_entry, lowest_since_entry, market_data, recent_bars) ==
    LET partial == CheckPartialExit(direction, current_price, exit_plan, partials_taken)
        move == IF ShouldMoveToBreakeven(direction, current_price, entry, current_stop, exit_plan.breakeven_trigger)
                THEN entry + (IF direction = "LONG" THEN Pts(1) ELSE 0 - Pts(1))
                ELSE None
    IN  IF recent_bars # <<>> /\ DetectReversal(direction, current_price, market_data.ema21, market_data.ema75, recent_bars)
        THEN Actions(move, partial, TRUE, "Reversal detected")
        ELSE Actions(move, partial, FALSE, "")

\* get_exit_recommendation.  recent_bars = <<>> stands for None and for the
\* empty list; a new_stop of 0.0 is dropped by `if new_stop`.
GetExitRecommendation(direction, entry, current_price, current_stop, exit_plan, partials_taken, bars_in_trade, highest_since_entry, lowest_since_entry, market_data, recent_bars) ==
    LET current_pnl == IF direction = "LONG" THEN current_price - entry
                       ELSE entry - current_price
        partial == CheckPartialExit(direction, current_price, exit_plan, partials_taken)
        at_breakeven == IF direction = "LONG" THEN current_stop >= entry
                        ELSE current_stop <= entry
        triggered == \/ direction = "LONG" /\ current_price >= exit_plan.trailing_trigger
                     \/ direction = "SHORT" /\ current_price <= exit_plan.trailing_trigger
        new_stop == CalculateTrailingStop(direction, current_price, entry, current_stop, highest_since_entry, lowest_since_entry, exit_plan.trailing_offset)
        move_stop ==
            IF ShouldMoveToBreakeven(direction, current_price, entry, current_stop, exit_plan.breakeven_trigger)
            THEN entry + (IF direction = "LONG" THEN Pts(1) ELSE 0 - Pts(1))
            ELSE IF at_breakeven /\ triggered /\ new_stop # None /\ new_stop # 0
            THEN new_stop
            ELSE None
    IN  IF recent_bars # <<>> /\ DetectReversal(direction, current_price, market_data.ema21, market_data.ema75, recent_bars)
        THEN Actions(None, <<>>, TRUE, "Reversal detected")
        ELSE IF CheckTimeExit(bars_in_trade, current_pnl, exit_plan)
        THEN Actions(None, <<>>, TRUE, "Time exit")
        ELSE Actions(move_stop, partial, FALSE, "")

NoPlan == CreateExitPlan("", 0, 0, 0, 0)

\* no call on the ExitManager yet
NoTrade ==
    [op |-> "", direction |-> "", entry |-> 0, stop |-> 0, target |-> 0,
     quantity |-> 0, exit_plan |-> NoPlan]

(***************************************************************************)
(* core/retry.py: CircuitBreaker.  Its callers are the __call__ wrapper    *)
(* and _analyze_with_retry: both ask can_execute first and record the      *)
(* outcome of the call they then make.                                     *)
(***************************************************************************)
FailureThreshold == 5           \* CircuitBreaker(failure_threshold=5, ...)
SuccessThreshold == 2           \* success_threshold=2
BreakerTimeout == 60            \* timeout=60.0, seconds

\* CircuitBreaker.__init__
CircuitBreaker(failure_threshold, success_threshold, timeout) ==
    [failure_threshold |-> failure_threshold,
     success_threshold |-> success_threshold,
     timeout |-> timeout,
     failures |-> 0, successes |-> 0, state |-> "closed",
     last_failure_time |-> None]

\* the api_circuit_breaker of the orchestrator
ApiCircuitBreaker == CircuitBreaker(FailureThreshold, SuccessThreshold, BreakerTimeout)

\* the state property: reading it moves an open breaker to half-open once
\* the timeout has passed (a last failure time of None or 0.0 is falsy)
State(cb, time) ==
    IF /\ cb.state = "open"
       /\ cb.last_failure_time # None
       /\ cb.last_failure_time # 0
       /\ time - cb.last_failure_time > cb.timeout
    THEN [cb EXCEPT !.state = "half-open"]
    ELSE cb

\* can_execute: the answer and the breaker after the read of its state
CanExecute(cb, time) ==
    LET read == State(cb, time)
    IN  [allowed |-> read.state # "open", cb |-> read]

\* _open
Open(cb) == [cb EXCEPT !.state = "open"]

\* _close
Close(cb) == [cb EXCEPT !.state = "closed", !.failures = 0, !.successes = 0]

\* a record_success that keeps the failure count of a closed breaker
RecordSuccessKeepsCount(cb) ==
    IF cb.state = "half-open"
    THEN LET counted == [cb EXCEPT !.successes = @ + 1]
         IN  IF counted.successes >= cb.success_threshold THEN Close(counted)
             ELSE counted
    ELSE cb

\* record_success
RecordSuccess(cb) ==
    IF cb.state = "half-open"
    THEN LET counted == [cb EXCEPT !.successes = @ + 1]
         IN  IF counted.successes >= cb.success_threshold THEN Close(counted)
             ELSE counted
    ELSE [cb EXCEPT !.failures = 0]

\* record_failure
RecordFailure(cb, time) ==
    LET counted == [cb EXCEPT !.failures = @ + 1, !.successes = 0,
                              !.last_failure_time = time]
    IN  IF cb.state = "half-open" THEN Open(counted)
        ELSE IF counted.failures >= cb.failure_threshold THEN Open(counted)
        ELSE counted

\* the __call__ wrapper around a function that returns (ok) or raises:
\* what the caller sees and the breaker afterwards
Wrapper(cb, time, ok) ==
    LET gate == CanExecute(cb, time)
    IN  IF ~gate.allowed
        THEN [outcome |-> "CIRCUIT_OPEN", cb |-> gate.cb]
        ELSE IF ok
        THEN [outcome |-> "returned", cb |-> RecordSuccess(gate.cb)]
        ELSE [outcome |-> "raised", cb |-> RecordFailure(gate.cb, time)]

\* no call on a breaker yet; the clock of a running system is not at zero
BreakerIdle == breaker = ApiCircuitBreaker /\ clock = 1

(***************************************************************************)
(* main.py: the live orchestrator.  orch.signals is trade_signals.csv      *)
(* below its header, orch.last_bar_time is run_live_mode's last_bar_time   *)
(* orch.trace records what the last loop iteration did, orch.current_price *)
(* is the price run_live_mode last read for its display and                *)
(* orch.fvg_context the context analyze_market_context last returned.      *)
(***************************************************************************)
\* a setup of the analysis result; the prices show a third decimal
Setup(entry, stop, target, confidence) ==
    [entry |-> entry, stop |-> stop, target |-> target, confidence |-> confidence]

LongSetup == Setup(Pts(100) + 4, Pts(80) + 4, Pts(160) + 4, 70)
ShortSetup == Setup(Pts(100) + 4, Pts(120) + 4, Pts(40) + 4, 70)
WeakLongSetup == Setup(Pts(100) + 4, Pts(80) + 4, Pts(160) + 4, 50)

Decision(primary_decision, long_setup, short_setup) ==
    [primary_decision |-> primary_decision, long_setup |-> long_setup,
     short_setup |-> short_setup]

\* result['decision'] of a successful analysis
Decisions ==
    {Decision("NONE", LongSetup, ShortSetup),
     Decision("LONG", LongSetup, ShortSetup),
     Decision("SHORT", LongSetup, ShortSetup),
     Decision("LONG", WeakLongSetup, ShortSetup),
     Decision("BOTH", LongSetup, ShortSetup)}

\* what _analyze_with_retry returns: None, a failure, or a decision
AnalysisResults ==
    {[success |-> FALSE, decision |-> Decision("NONE", LongSetup, ShortSetup)]}
        \cup {[success |-> TRUE, decision |-> d] : d \in Decisions}

\* read_current_price: None or the last price of the live feed
CurrentPrices == {None, Pts(100), Pts(105)}

\* max(1, int(position_size * setup_quality.adjusted_size))
AdjustedSizes == {1, 2}

\* the dict handed to generate_signal (the fields the gate has checked)
Signal(decision, setup, adjusted_size) ==
    [decision |-> decision, entry |-> setup.entry, stop |-> setup.stop,
     target |-> setup.target, confidence |-> setup.confidence,
     adjusted_size |-> adjusted_size]

NoSignal == Signal("", Setup(0, 0, 0, 0), 0)

\* f"{x:.2f}": the price in hundredths, rounded from the thousandths (no
\* price of the model ends in a 5, where the float's binary value decides)
Fmt2(x) == (x * 100 + PriceScale \div 2) \div PriceScale

\* SignalGenerator.validate_decision (the signal carries no raw_target)
ValidateDecision(decision) ==
    LET entry == decision.entry
        stop == decision.stop
        target == decision.target
        risk == Abs(entry - stop)
        reward == Abs(target - entry)
    IN  IF decision.decision \notin {"LONG", "SHORT"} THEN FALSE
        ELSE IF decision.decision = "LONG" /\ stop >= entry THEN FALSE
        ELSE IF decision.decision = "LONG" /\ target <= entry THEN FALSE
        ELSE IF decision.decision = "SHORT" /\ stop <= entry THEN FALSE
        ELSE IF decision.decision = "SHORT" /\ target >= entry THEN FALSE
        ELSE IF risk = 0 THEN FALSE
        \* rr_ratio < 1.3
        ELSE IF reward * 10 < 13 * risk THEN FALSE
        ELSE TRUE

\* a generate_signal whose write fails after the row has reached the file
GenerateSignalWritesThenFails(rows, decision, timestamp, write_ok) ==
    IF ~ValidateDecision(decision)
    THEN [success |-> FALSE, rows |-> rows]
    ELSE [success |-> write_ok,
          rows |-> Append(rows, [time |-> timestamp,
                                 decision |-> decision.decision,
                                 entry |-> Fmt2(decision.entry),
                                 stop |-> Fmt2(decision.stop),
                                 target |-> Fmt2(decision.target)])]

\* SignalGenerator.generate_signal: success and the rows of the file;
\* write_ok is whether the append to the file goes through
GenerateSignal(rows, decision, timestamp, write_ok) ==
    IF ~ValidateDecision(decision)
    THEN [success |-> FALSE, rows |-> rows]
    ELSE IF write_ok
    THEN [success |-> TRUE,
          rows |-> Append(rows, [time |-> timestamp,
                                 decision |-> decision.decision,
                                 entry |-> Fmt2(decision.entry),
                                 stop |-> Fmt2(decision.stop),
                                 target |-> Fmt2(decision.target)])]
    ELSE [success |-> FALSE, rows |-> rows]

\* what one bar-processing step did: where it stopped, the check_pre_trade
\* call it made, the signal it handed to generate_signal, whether a row was
\* written and the record_trade_entry calls it made
Trace(step, checks, checked, allowed, signal, written, entries, entered) ==
    [step |-> step, checks |-> checks, checked |-> checked, allowed |-> allowed,
     signal |-> signal, written |-> written, entries |-> entries,
     entered |-> entered]

NoEntry == [direction |-> "", quantity |-> 0]

Stopped(step) == Trace(step, 0, NoReq, FALSE, NoSignal, FALSE, 0, NoEntry)

\* the outcome of _process_bar
Outcome(m, file, fvgs, last_processed_bar_time, rows, trace, call, h) ==
    [m |-> m, file |-> file, fvgs |-> fvgs,
     last_processed_bar_time |-> last_processed_bar_time, rows |-> rows,
     trace |-> trace, call |-> call, h |-> h]

\* _process_bar from the pre-trade risk check on (the third validation layer)
RiskCheckAndSignal(m, file, fvgs, last, rows, call, h, t, date, primary, chosen_setup, adjusted_size, write_ok) ==
    LET a == CheckPreTrade(m, t, primary, chosen_setup.entry, chosen_setup.stop,
                           chosen_setup.target, adjusted_size,
                           chosen_setup.confidence)
        checked == Request(primary, chosen_setup.entry, chosen_setup.stop,
                           chosen_setup.target, adjusted_size,
                           chosen_setup.confidence)
        check_call == Call("check_pre_trade", a.allowed, a.reason, "")
        h1 == HistOf(h, "check_pre_trade", "", a.m)
        signal == Signal(primary, chosen_setup, adjusted_size)
        g == GenerateSignal(rows, signal, t, write_ok)
        m2 == RecordTradeEntry(a.m, t, adjusted_size)
    IN  IF ~a.allowed
        THEN Outcome(a.m, file, fvgs, last, rows,
                     Trace("rejected", 1, checked, FALSE, NoSignal, FALSE, 0,
                           NoEntry),
                     check_call, h1)
        ELSE IF g.success
        THEN Outcome(m2, SaveState(m2, date), fvgs, last, g.rows,
                     Trace("signal", 1, checked, TRUE, signal,
                           g.rows # rows, 1,
                           [direction |-> primary, quantity |-> adjusted_size]),
                     Call("record_trade_entry", TRUE, OK, ""),
                     HistOf(h1, "record_trade_entry", "", m2))
        ELSE Outcome(a.m, file, fvgs, last, g.rows,
                     Trace("not_written", 1, checked, TRUE, signal,
                           g.rows # rows, 0, NoEntry),
                     check_call, h1)

\* _process_bar; the inputs are the live price, the analysis result, the
\* verdicts of the decision validator and of the edge filters, the size the
\* setup quality gives and whether the signal file can be written
ProcessBar(m, file, fvgs0, d, last0, rows, call, h, t, date, current_price, result, is_valid, should_take, adjusted_size, write_ok) ==
    LET bars == ProcessHistoricalBars(fvgs0, d, last0)
        last == bars.last_processed_bar_time
        fvgs == CheckLiveFvgFills(bars.fvgs, current_price)
        primary == result.decision.primary_decision
        chosen_setup == IF primary = "LONG" THEN result.decision.long_setup
                        ELSE result.decision.short_setup
    IN  IF current_price = None
        THEN Outcome(m, file, bars.fvgs, last, rows, Stopped("no_price"), call, h)
        ELSE IF \A i \in 1..Len(fvgs) : fvgs[i].filled
        THEN Outcome(m, file, fvgs, last, rows, Stopped("no_zones"), call, h)
        ELSE IF ~result.success
        THEN Outcome(m, file, fvgs, last, rows, Stopped("no_analysis"), call, h)
        ELSE IF primary = "NONE"
        THEN Outcome(m, file, fvgs, last, rows, Stopped("none"), call, h)
        ELSE IF ~is_valid
        THEN Outcome(m, file, fvgs, last, rows, Stopped("invalid"), call, h)
        ELSE IF ~should_take
        THEN Outcome(m, file, fvgs, last, rows, Stopped("low_quality"), call, h)
        ELSE RiskCheckAndSignal(m, file, fvgs, last, rows, call, h, t, date,
                                primary, chosen_setup, adjusted_size, write_ok)

\* one iteration of the loop of run_live_mode on a healthy system
LiveIteration ==
    /\ fvg_phase = "live"
    /\ Len(df) > 0
    /\ hist.records < MaxRecords
    /\ LET can == CanTrade(metrics, now)
           can_call == Call("can_trade", can.allowed, can.reason, "")
           h == HistOf(hist, "can_trade", "", metrics)
       IN  IF ~can.allowed
           THEN /\ orch' = [orch EXCEPT !.trace = Stopped("blocked")]
                /\ ret' = can_call
                /\ req' = NoReq
                /\ hist' = h
                /\ UNCHANGED <<metrics, state_file, active_fvgs, last_processed, config, trade, breaker, clock>>
           ELSE IF orch.last_bar_time = Len(df)
           THEN \* no new bar: read_current_price for the display only
                /\ \E current_price \in CurrentPrices :
                        orch' = [orch EXCEPT !.trace = Stopped("no_bar"),
                                             !.current_price = current_price]
                /\ ret' = can_call
                /\ req' = NoReq
                /\ hist' = h
                /\ UNCHANGED <<metrics, state_file, active_fvgs, last_processed, config, trade, breaker, clock>>
           ELSE \* a new bar: both price reads of the iteration, the one of
                \* _process_bar and the one for the display, see the same
                \* last row of the live feed
                \E current_price \in CurrentPrices :
                \E o \in {ProcessBar(metrics, state_file, active_fvgs, df,
                                     last_processed, orch.signals, can_call, h,
                                     now, today, current_price, result,
                                     is_valid, should_take, adjusted_size,
                                     write_ok) :
                             result \in AnalysisResults,
                             is_valid \in BOOLEAN, should_take \in BOOLEAN,
                             adjusted_size \in AdjustedSizes,
                             write_ok \in BOOLEAN} :
                    /\ metrics' = o.m
                    /\ state_file' = o.file
                    /\ active_fvgs' = o.fvgs
                    /\ last_processed' = o.last_processed_bar_time
                    /\ orch' = [signals |-> o.rows, last_bar_time |-> Len(df),
                                trace |-> o.trace,
                                current_price |-> current_price,
                                fvg_context |-> orch.fvg_context]
                    /\ ret' = o.call
                    /\ req' = o.trace.checked
                    /\ hist' = o.h
    /\ UNCHANGED <<now, today, df, fvg_phase, config, trade, breaker, clock>>

\* the historical files the orchestrator is started on: one that holds a
\* bullish gap, one that holds a bearish gap and one without a gap
OrchFiles ==
    {<<Bar(Pts(100), Pts(100)), Bar(Pts(105), Pts(103)), Bar(Pts(112), Pts(112))>>,
     <<Bar(Pts(112), Pts(112)), Bar(Pts(105), Pts(103)), Bar(Pts(100), Pts(100))>>,
     <<Bar(Pts(105), Pts(100)), Bar(Pts(105), Pts(100)), Bar(Pts(105), Pts(100))>>}

\* the bars that arrive while the orchestrator runs: one inside the
\* range of the last bars and one that sweeps every price level
OrchBars == {Bar(Pts(105), Pts(103)), Bar(Pts(112), Pts(100))}

NewBar == AppendBarFrom(OrchBars, MaxLiveBars)

NoOrch ==
    [signals |-> <<>>, last_bar_time |-> None, trace |-> Stopped("idle"),
     current_price |-> None, fvg_context |-> NoContext]

\* the orchestrator before its loop; its ExitManager has seen no trade
OrchIdle == orch = NoOrch /\ trade = NoTrade /\ BreakerIdle

\* run_live_mode up to its loop: FVGDisplay(), load_historical_fvgs()
OrchInit ==
    /\ RiskInit
    /\ df \in OrchFiles
    /\ active_fvgs = LoadHistoricalFvgs(<<>>, df)
    /\ fvg_phase = "live"
    /\ last_processed = None
    /\ OrchIdle

\* record_trade_exit has no caller in the orchestrator, so its gate never
\* starts a cooldown and the clock, which the gate reads for the cooldown
\* only, is left out of the loop
OrchNext ==
    \/ LiveIteration
    \/ NewBar

SpecOrch == OrchInit /\ [][OrchNext]_vars

RiskNext ==
    \/ Restart
    \/ CheckPreTradeCall
    \/ CanTradeCall
    \/ RecordTradeEntryCall
    \/ RecordTradeExitCall
    \/ ResumeTradingCall
    \/ Tick
    \/ Midnight

Init == RiskInit /\ ZoneIdle /\ OrchIdle

Next == RiskNext

Spec == Init /\ [][Next]_vars

SpecZones == Init /\ [][ZoneNext]_vars

(***************************************************************************)
(* check_pre_trade as a function: every metrics record a running gate can  *)
(* hold when the call arrives, every combination of the arguments          *)
(***************************************************************************)
PreTradeInit ==
    /\ \E s \in {NORMAL, COOLDOWN, HALTED},
          dt \in {0, MaxDailyTrades},
          pnl \in {0, -Pts(MaxDailyLoss)},
          cl \in {0, MaxConsecutiveLosses},
          vol \in {0, DailyVolumeCap - 5},
          llt \in {None, 0} :
            \* a gate in COOLDOWN has passed _check_risk_limits
            /\ s = COOLDOWN => (pnl > -Pts(MaxDailyLoss) /\ cl < MaxConsecutiveLosses)
            /\ metrics = [RiskMetrics EXCEPT
                            !.state = s,
                            !.state_reason =
                                IF s = HALTED THEN "Maximum drawdown reached"
                                ELSE IF s = COOLDOWN THEN "Cooldown after loss"
                                ELSE "",
                            !.daily_trades = dt,
                            !.daily_pnl = pnl,
                            !.consecutive_losses = cl,
                            !.daily_volume = vol,
                            !.last_loss_time = llt]
    /\ now \in 0..MaxTime
    /\ today = 0
    /\ state_file = NoFile
    /\ ret = Call("__init__", TRUE, OK, "")
    /\ req = NoReq
    /\ hist = NoHist
    /\ config = RiskConfig
    /\ ZoneIdle
    /\ OrchIdle

PreTradeCheck ==
    /\ ret.op = "__init__"
    /\ \E direction \in Directions, stop \in StopPrices, target \in TargetPrices,
          quantity \in CheckQuantities, confidence \in Confidences :
        LET a == CheckPreTrade(metrics, now, direction, EntryPrice, stop,
                               target, quantity, confidence)
        IN  /\ metrics' = a.m
            /\ ret' = Call("check_pre_trade", a.allowed, a.reason, "")
            /\ req' = Request(direction, EntryPrice, stop, target, quantity,
                              confidence)
            /\ UNCHANGED <<state_file, now, today, hist, zoneVars, orch, config, trade, breaker, clock>>

PreTradeNext == PreTradeCheck

SpecPreTrade == PreTradeInit /\ [][PreTradeNext]_vars

(***************************************************************************)
(* check_pre_trade of a fresh gate under every configuration that          *)
(* _validate_configs lets through: stop_loss_min < stop_loss_max and       *)
(* min_risk_reward > 0                                                     *)
(***************************************************************************)
AdmissibleConfigs ==
    {c \in [stop_loss_min : {0 - 5, 0, StopLossMin},
            stop_loss_max : {10, StopLossMax},
            min_risk_reward : {1, MinRiskReward}] :
        c.stop_loss_min < c.stop_loss_max /\ c.min_risk_reward > 0}

ConfiguredInit ==
    /\ metrics = RiskMetrics
    /\ state_file = NoFile
    /\ now = 0
    /\ today = 0
    /\ ret = Call("__init__", TRUE, OK, "")
    /\ req = NoReq
    /\ hist = NoHist
    /\ config \in AdmissibleConfigs
    /\ ZoneIdle
    /\ OrchIdle

SpecConfigured == ConfiguredInit /\ [][PreTradeNext]_vars

(***************************************************************************)
(* The constructor over every state file it can find: none, one that does  *)
(* not parse, and dictionaries written today or the day before whose state *)
(* is a RiskState value, empty or an unknown name                          *)
(***************************************************************************)
StateFiles ==
    {NoFile} \cup
    {[exists |-> TRUE, valid_json |-> v, date |-> d, daily_trades |-> dt,
      daily_pnl |-> pnl, daily_wins |-> 0, daily_losses |-> cl,
      consecutive_losses |-> cl, peak_equity |-> 0, daily_volume |-> dt,
      state |-> s, state_reason |-> IF s = HALTED THEN "Daily loss limit reached" ELSE ""] :
        v \in BOOLEAN, d \in {0, 1}, dt \in 0..MaxDailyTrades,
        pnl \in {0, 0 - Pts(MaxDailyLoss)}, cl \in {0, MaxConsecutiveLosses},
        s \in {NORMAL, HALTED, COOLDOWN, "", "paused"}}

LoadInit ==
    /\ metrics = RiskMetrics
    /\ state_file \in StateFiles
    /\ now = 0
    /\ today = 1
    /\ ret = Call("", TRUE, OK, "")
    /\ req = NoReq
    /\ hist = NoHist
    /\ config = RiskConfig
    /\ ZoneIdle
    /\ OrchIdle

\* EnterpriseRiskManager(): the constructor runs once
Construct == ret.op = "" /\ Restart

LoadNext == Construct

SpecLoad == LoadInit /\ [][LoadNext]_vars

(***************************************************************************)
(* get_position_size as a function of the gate's counters and base_size    *)
(***************************************************************************)
BaseSizes == (0 - 3)..(MaxPositionSize + 2) \cup {4 * MaxPositionSize}

SizeInit ==
    /\ \E dt \in 0..MaxDailyTrades, cl \in 0..MaxConsecutiveLosses :
        metrics = [RiskMetrics EXCEPT !.daily_trades = dt,
                                      !.daily_losses = cl,
                                      !.consecutive_losses = cl]
    /\ state_file = NoFile
    /\ now = 0
    /\ today = 0
    /\ ret = Call("__init__", TRUE, OK, "")
    /\ req = NoReq
    /\ hist = NoHist
    /\ config = RiskConfig
    /\ ZoneIdle
    /\ OrchIdle

GetPositionSizeCall ==
    /\ ret.op = "__init__"
    /\ \E base_size \in BaseSizes :
        ret' = [op |-> "get_position_size", base_size |-> base_size,
                size |-> GetPositionSize(metrics, base_size)]
    /\ UNCHANGED <<metrics, state_file, now, today, req, hist, zoneVars, orch, config, trade, breaker, clock>>

SizeNext == GetPositionSizeCall

SpecSize == SizeInit /\ [][SizeNext]_vars

(***************************************************************************)
(* The gate after a halt by the consecutive-loss limit: none, one or       *)
(* MaxDailyTrades entries, then MaxConsecutiveLosses losing exits of 30    *)
(* points, all at time 0 of day 0; from there every operation of the gate, *)
(* with room for MaxRecords - 2 more entries or exits                      *)
(***************************************************************************)
RECURSIVE Entered(_)
\* a fresh gate after n record_trade_entry calls of one contract
Entered(n) ==
    IF n = 0 THEN RiskMetrics ELSE RecordTradeEntry(Entered(n - 1), 0, 1)

RECURSIVE Lost(_, _)
\* the gate m after n record_trade_exit calls with a loss of 30 points
Lost(m, n) ==
    IF n = 0 THEN m
    ELSE RecordTradeExit(Lost(m, n - 1), 0, "SHORT", EntryPrice, Pts(130), 1, "LOSS")

ResumeInit ==
    /\ \E entries \in 0..MaxDailyTrades :
        /\ metrics = Lost(Entered(entries), MaxConsecutiveLosses)
        /\ hist = [records |-> 2,
                   fresh_losses |-> IF entries = 0 THEN MaxConsecutiveLosses ELSE None,
                   cooldown_until |-> CoolDownMinutes,
                   activity_today |-> TRUE]
    /\ state_file = SaveState(metrics, 0)
    /\ now = 0
    /\ today = 0
    /\ ret = Call("record_trade_exit", TRUE, OK, "LOSS")
    /\ req = NoReq
    /\ config = RiskConfig
    /\ ZoneIdle
    /\ OrchIdle

SpecResume == ResumeInit /\ [][RiskNext]_vars

(***************************************************************************)
(* create_exit_plan as a function of its five arguments                    *)
(***************************************************************************)
PlanEntries == {Pts(100), Pts(100) + 250}
PlanStops == {Pts(90), Pts(80), Pts(100), Pts(110), Pts(97) + 500}
PlanTargets == {Pts(140), Pts(60)}
PlanQuantities == {1, 2, 3, 4, 7, 10, 100}

ExitPlanInit ==
    /\ RiskInit
    /\ ZoneIdle
    /\ orch = NoOrch
    /\ BreakerIdle
    /\ \E direction \in Directions, entry \in PlanEntries, stop \in PlanStops, target \in PlanTargets, quantity \in PlanQuantities :
        trade = [op |-> "", direction |-> direction, entry |-> entry,
                 stop |-> stop, target |-> target, quantity |-> quantity,
                 exit_plan |-> NoPlan]

CreateExitPlanCall ==
    /\ trade.op = ""
    /\ trade' = [trade EXCEPT
                    !.op = "create_exit_plan",
                    !.exit_plan = CreateExitPlan(trade.direction, trade.entry,
                                                 trade.stop, trade.target,
                                                 trade.quantity)]
    /\ UNCHANGED <<riskVars, zoneVars, orch, breaker, clock>>

ExitPlanNext == CreateExitPlanCall

SpecExitPlan == ExitPlanInit /\ [][ExitPlanNext]_vars

(***************************************************************************)
(* get_exit_recommendation as a function of its arguments.  The trade was  *)
(* entered at 100 with a risk of 10 or 20 points; the price is given by    *)
(* the profit it stands for, so that LONG and SHORT meet the same cases.   *)
(***************************************************************************)
TradeEntry == Pts(100)
TradeRisks == {Pts(10), Pts(20)}
TradePnls == {0 - Pts(15), 0 - Pts(10), 0 - Pts(5), 0, Pts(10), Pts(15), Pts(20), Pts(30), Pts(40), Pts(50)}
BarCounts == {0, MaxHoldBars - 1, MaxHoldBars, MaxHoldBars + 1}

\* the price that stands pnl in profit for the direction
PriceAt(direction, pnl) ==
    IF direction = "LONG" THEN TradeEntry + pnl ELSE TradeEntry - pnl

CalmBar == Candle(Pts(100), Pts(101), Pts(99), Pts(100))
BearishBar == Candle(Pts(120), Pts(121), Pts(100), Pts(101))
BullishBar == Candle(Pts(101), Pts(121), Pts(100), Pts(120))

Market(ema75, recent_bars) ==
    [market_data |-> [ema21 |-> Pts(100), ema75 |-> ema75], recent_bars |-> recent_bars]

\* market_data and recent_bars: no bars, too few bars, calm bars, the two
\* crossings of the 75 EMA, the two momentum bars, and a body of exactly
\* three quarters and a range of exactly 15 points
Markets ==
    {Market(Pts(100), <<>>),
     Market(Pts(50), <<CalmBar, BearishBar>>),
     Market(Pts(50), <<CalmBar, CalmBar, CalmBar>>),
     Market(Pts(97) + 500, <<CalmBar, Candle(Pts(100), Pts(102), Pts(100), Pts(101)), CalmBar>>),
     Market(Pts(102) + 500, <<CalmBar, Candle(Pts(100), Pts(100), Pts(98), Pts(99)), CalmBar>>),
     Market(Pts(50), <<CalmBar, CalmBar, BearishBar>>),
     Market(Pts(50), <<CalmBar, CalmBar, BullishBar>>),
     Market(Pts(50), <<CalmBar, CalmBar, Candle(Pts(116), Pts(120), Pts(100), Pts(101))>>),
     Market(Pts(50), <<CalmBar, CalmBar, Candle(Pts(115), Pts(115), Pts(100), Pts(100))>>)}

ExitInit ==
    /\ RiskInit
    /\ ZoneIdle
    /\ orch = NoOrch
    /\ BreakerIdle
    /\ \E direction \in Directions, risk \in TradeRisks, pnl \in TradePnls, run \in {0, Pts(10)}, stop_at \in {0 - 1, 0, 1, 15}, partials_taken \in 0..2, bars_in_trade \in BarCounts, market \in Markets :
        LET initial_stop == PriceAt(direction, 0 - risk)
            current_price == PriceAt(direction, pnl)
            extreme == PriceAt(direction, pnl + run)
        IN  trade = [op |-> "",
                     direction |-> direction,
                     entry |-> TradeEntry,
                     current_price |-> current_price,
                     current_stop |-> IF stop_at < 0 THEN initial_stop
                                      ELSE PriceAt(direction, Pts(stop_at)),
                     exit_plan |-> CreateExitPlan(direction, TradeEntry,
                                                  initial_stop,
                                                  PriceAt(direction, 4 * risk), 10),
                     partials_taken |-> partials_taken,
                     bars_in_trade |-> bars_in_trade,
                     highest_since_entry |->
                        IF direction = "LONG" THEN extreme
                        ELSE Max(TradeEntry, current_price),
                     lowest_since_entry |->
                        IF direction = "LONG" THEN Min(TradeEntry, current_price)
                        ELSE extreme,
                     market_data |-> market.market_data,
                     recent_bars |-> market.recent_bars,
                     actions |-> Actions(None, <<>>, FALSE, "")]

GetExitRecommendationCall ==
    /\ trade.op = ""
    /\ trade' = [trade EXCEPT
                    !.op = "get_exit_recommendation",
                    !.actions = GetExitRecommendation(
                                    trade.direction, trade.entry,
                                    trade.current_price, trade.current_stop,
                                    trade.exit_plan, trade.partials_taken,
                                    trade.bars_in_trade,
                                    trade.highest_since_entry,
                                    trade.lowest_since_entry,
                                    trade.market_data, trade.recent_bars)]
    /\ UNCHANGED <<riskVars, zoneVars, orch, breaker, clock>>

ExitNext == GetExitRecommendationCall

SpecExit == ExitInit /\ [][ExitNext]_vars

(***************************************************************************)
(* get_exit_recommendation on plans of small and large risk: half a point, *)
(* just under and just over two thirds of a point (0.666 and 0.668),      *)
(* one point and ten points, the price from one risk under the entry to    *)
(* four risks over it, in a calm market                                    *)
(***************************************************************************)
StopRisks == {Pts(1) \div 2, 666, 668, Pts(1), Pts(10)}

StopMoveInit ==
    /\ RiskInit
    /\ ZoneIdle
    /\ orch = NoOrch
    /\ BreakerIdle
    /\ \E direction \in Directions, risk \in StopRisks, halves \in (0 - 2)..8, run \in {0, 1}, stop_at \in {0 - 1, 0, 1, 2}, partials_taken \in 0..2 :
        LET pnl == (risk * halves) \div 2
            initial_stop == PriceAt(direction, 0 - risk)
            current_price == PriceAt(direction, pnl)
            extreme == PriceAt(direction, pnl + run * risk)
        IN  trade = [op |-> "",
                     direction |-> direction,
                     entry |-> TradeEntry,
                     current_price |-> current_price,
                     current_stop |-> IF stop_at < 0 THEN initial_stop
                                      ELSE PriceAt(direction, stop_at * risk),
                     exit_plan |-> CreateExitPlan(direction, TradeEntry,
                                                  initial_stop,
                                                  PriceAt(direction, 4 * risk), 10),
                     partials_taken |-> partials_taken,
                     bars_in_trade |-> 0,
                     highest_since_entry |->
                        IF direction = "LONG" THEN extreme
                        ELSE Max(TradeEntry, current_price),
                     lowest_since_entry |->
                        IF direction = "LONG" THEN Min(TradeEntry, current_price)
                        ELSE extreme,
                     market_data |-> Market(Pts(100), <<>>).market_data,
                     recent_bars |-> <<>>,
                     actions |-> Actions(None, <<>>, FALSE, "")]

SpecStopMove == StopMoveInit /\ [][ExitNext]_vars

(***************************************************************************)
(* A trade managed through get_exit_recommendation.  The repository has    *)
(* no caller of it; the tracker here is the one its arguments ask for: it  *)
(* keeps the highest and lowest price since the entry, counts the bars,    *)
(* and applies every stop move, partial exit and close it is handed.       *)
(* trade.last_trailing is the last stop the trailing rule handed out and   *)
(* trade.trailing_moves counts them.                                       *)
(***************************************************************************)
TrackedMarkets ==
    {Market(Pts(100), <<>>),
     Market(Pts(50), <<CalmBar, CalmBar, BearishBar>>),
     Market(Pts(50), <<CalmBar, CalmBar, BullishBar>>)}

TrailInit ==
    /\ RiskInit
    /\ ZoneIdle
    /\ orch = NoOrch
    /\ BreakerIdle
    /\ \E direction \in Directions, risk \in TradeRisks :
        LET initial_stop == PriceAt(direction, 0 - risk)
        IN  trade = [op |-> "create_exit_plan",
                     direction |-> direction,
                     entry |-> TradeEntry,
                     current_price |-> TradeEntry,
                     current_stop |-> initial_stop,
                     exit_plan |-> CreateExitPlan(direction, TradeEntry,
                                                  initial_stop,
                                                  PriceAt(direction, 4 * risk), 10),
                     partials_taken |-> 0,
                     bars_in_trade |-> 0,
                     highest_since_entry |-> TradeEntry,
                     lowest_since_entry |-> TradeEntry,
                     actions |-> Actions(None, <<>>, FALSE, ""),
                     last_trailing |-> None,
                     trailing_moves |-> 0]

\* a price update of the open trade: the call and what the tracker does
\* with the actions
PriceUpdate ==
    /\ trade.op # "closed"
    /\ \E pnl \in TradePnls, bars_in_trade \in {b \in BarCounts : b >= trade.bars_in_trade}, market \in TrackedMarkets :
        LET current_price == PriceAt(trade.direction, pnl)
            highest == Max(trade.highest_since_entry, current_price)
            lowest == Min(trade.lowest_since_entry, current_price)
            actions == GetExitRecommendation(
                            trade.direction, trade.entry, current_price,
                            trade.current_stop, trade.exit_plan,
                            trade.partials_taken, bars_in_trade, highest, lowest,
                            market.market_data, market.recent_bars)
            trailing == /\ actions.move_stop # None
                        /\ ~ShouldMoveToBreakeven(trade.direction, current_price,
                                                  trade.entry, trade.current_stop,
                                                  trade.exit_plan.breakeven_trigger)
        IN  trade' = [trade EXCEPT
                        !.op = IF actions.close_position THEN "closed"
                               ELSE "get_exit_recommendation",
                        !.current_price = current_price,
                        !.bars_in_trade = bars_in_trade,
                        !.highest_since_entry = highest,
                        !.lowest_since_entry = lowest,
                        !.actions = actions,
                        !.current_stop = IF actions.move_stop # None
                                         THEN actions.move_stop ELSE @,
                        !.partials_taken = IF actions.take_partial # <<>>
                                           THEN @ + 1 ELSE @,
                        !.last_trailing = IF trailing THEN actions.move_stop ELSE @,
                        !.trailing_moves = IF trailing THEN @ + 1 ELSE @]
    /\ UNCHANGED <<riskVars, zoneVars, orch, breaker, clock>>

TrailNext == PriceUpdate

SpecTrail == TrailInit /\ [][TrailNext]_vars

(***************************************************************************)
(* analyze_market_context as a function: every list of up to MaxZones      *)
(* zones over four price ranges, bullish and bearish, filled and unfilled, *)
(* and every price of AnalyzerPrices                                       *)
(***************************************************************************)
MaxZones == 3

\* [type, bottom, top] of the zones the analyzer is asked about
ZoneShapes ==
    {<<type, r[1], r[2]>> :
        type \in {"bullish", "bearish"},
        r \in {<<Pts(90), Pts(100)>>, <<Pts(100), Pts(105)>>,
               <<Pts(105), Pts(112)>>, <<Pts(90), Pts(112)>>}}

\* the zone lists of length n; the zone at position i carries index i + 2
RECURSIVE ZoneLists(_)
ZoneLists(n) ==
    IF n = 0 THEN {<<>>}
    ELSE {Append(fvgs, [Fvg(z[1], z[3], z[2], n + 2) EXCEPT !.filled = filled]) :
            fvgs \in ZoneLists(n - 1), z \in ZoneShapes, filled \in BOOLEAN}

AnalyzerPrices ==
    {Pts(85), Pts(90), Pts(95), Pts(100), Pts(102) + 500, Pts(103), Pts(105),
     Pts(112), Pts(120)}

AnalyzerInit ==
    /\ RiskInit
    /\ df = <<>>
    /\ fvg_phase = "offline"
    /\ last_processed = None
    /\ \E n \in 0..MaxZones : active_fvgs \in ZoneLists(n)
    /\ OrchIdle

\* analyze_market_context(current_price, active_fvgs)
AnalyzeCall ==
    /\ orch.fvg_context = NoContext
    /\ \E current_price \in AnalyzerPrices :
        orch' = [orch EXCEPT
                    !.fvg_context = AnalyzeMarketContext(current_price, active_fvgs)]
    /\ UNCHANGED <<riskVars, zoneVars, trade, breaker, clock>>

AnalyzerNext == AnalyzeCall

SpecAnalyzer == AnalyzerInit /\ [][AnalyzerNext]_vars

(***************************************************************************)
(* Insertion (is_duplicate_zone, then append) as a function: the registry  *)
(* is any list of up to MaxZones zones over three ranges that the registry *)
(* can hold (no two unfilled zones of one type overlap), the candidate is  *)
(* the gap of a file of three bars                                         *)
(***************************************************************************)
RegistryShapes ==
    {[Fvg(type, r[2], r[1], 0) EXCEPT !.filled = filled] :
        type \in {"bullish", "bearish"},
        r \in {<<Pts(100), Pts(110)>>, <<Pts(110), Pts(120)>>, <<Pts(102), Pts(108)>>},
        filled \in BOOLEAN}

RECURSIVE Registries(_)
\* the lists of n zones; the zone at position k was found at bar k - n of
\* a history that lies before the file
Registries(n) ==
    IF n = 0 THEN {<<>>}
    ELSE {Append(fvgs, [shape EXCEPT !.index = Len(fvgs) - n]) :
            fvgs \in Registries(n - 1), shape \in RegistryShapes}

\* no two unfilled zones of one type overlap
Consistent(fvgs) ==
    \A i, j \in 1..Len(fvgs) :
        (i < j /\ fvgs[i].type = fvgs[j].type /\ ~fvgs[i].filled /\ ~fvgs[j].filled)
            => ~ZonesOverlap(fvgs[i].bottom, fvgs[i].top, fvgs[j].bottom, fvgs[j].top)

\* three bars that leave the gap from low to high, upwards or downwards
GapFile(low, high, up) ==
    IF up THEN <<Bar(low, low), Bar(high, low), Bar(high, high)>>
    ELSE <<Bar(high, high), Bar(high, low), Bar(low, low)>>

CandidateFiles ==
    {GapFile(r[1], r[2], up) :
        r \in {<<Pts(102), Pts(108)>>, <<Pts(108), Pts(113)>>, <<Pts(100), Pts(120)>>,
               <<Pts(120), Pts(125)>>, <<Pts(105), Pts(108)>>, <<Pts(105), Pts(113)>>},
        up \in BOOLEAN}

InsertInit ==
    /\ RiskInit
    /\ OrchIdle
    /\ fvg_phase = "live"
    /\ last_processed = None
    /\ df \in CandidateFiles
    /\ \E n \in 0..MaxZones : active_fvgs \in {fvgs \in Registries(n) : Consistent(fvgs)}

\* the detection of find_new_fvgs for the last bar and the insertion
InsertCall ==
    /\ last_processed = None
    /\ LET found == GapAt(df, Len(df))
       IN  active_fvgs' = IF found = <<>> THEN active_fvgs
                          ELSE Insert(active_fvgs, found[1])
    /\ last_processed' = Len(df)
    /\ UNCHANGED <<df, fvg_phase, riskVars, orch, trade, breaker, clock>>

InsertNext == InsertCall

SpecInsert == InsertInit /\ [][InsertNext]_vars

(***************************************************************************)
(* The fill sweeps over completed bars, side by side: the zones of the     *)
(* first three bars of a file and the bars that follow, swept by           *)
(* check_fvg_fill_status (active_fvgs), by BacktestEngine.update_fvg_status*)
(* (ret.fvgs) and scanned by is_fvg_filled                                 *)
(***************************************************************************)
MaxFillBars == 3                \* bars that follow the gap

\* a zone as detect_fvgs_historical appends it
BacktestFvg(fvg) ==
    [type |-> fvg.type, top |-> fvg.top, bottom |-> fvg.bottom,
     gap_size |-> fvg.gap_size, index |-> fvg.index, filled |-> FALSE,
     age_bars |-> 0]

\* detect_fvgs_historical: from the third bar on, the same gaps under the
\* same minimum size
DetectFvgsHistorical(d) ==
    LET found == FindFvgsFrom(d, 3)
    IN  [k \in 1..Len(found) |-> BacktestFvg(found[k])]

\* BacktestEngine.update_fvg_status
UpdateFvgStatus(fvgs, current_bar, current_index) ==
    [k \in 1..Len(fvgs) |->
        IF fvgs[k].filled THEN fvgs[k]
        ELSE LET aged == [fvgs[k] EXCEPT !.age_bars = current_index - fvgs[k].index]
             IN  IF aged.type = "bullish" /\ current_bar.High >= aged.top
                 THEN [aged EXCEPT !.filled = TRUE]
                 ELSE IF aged.type = "bearish" /\ current_bar.Low <= aged.bottom
                 THEN [aged EXCEPT !.filled = TRUE]
                 ELSE aged]

RECURSIVE BarLists(_)
BarLists(n) ==
    IF n = 0 THEN {<<>>}
    ELSE {Append(bars, bar) : bars \in BarLists(n - 1), bar \in Bars}

\* a gap between two of the levels, then up to MaxFillBars bars
FillFiles ==
    {GapFile(r[1], r[2], up) \o tail :
        r \in {<<Pts(100), Pts(105)>>, <<Pts(103), Pts(112)>>},
        up \in BOOLEAN,
        tail \in UNION {BarLists(n) : n \in 1..MaxFillBars}}

FillInit ==
    /\ metrics = RiskMetrics
    /\ state_file = NoFile
    /\ now = 0
    /\ today = 0
    /\ req = NoReq
    /\ hist = NoHist
    /\ config = RiskConfig
    /\ OrchIdle
    /\ fvg_phase = "live"
    /\ last_processed = 3
    /\ df \in FillFiles
    /\ active_fvgs = FindFvgsInData(SubSeq(df, 1, 3))
    /\ ret = [op |-> "update_fvg_status",
              fvgs |-> DetectFvgsHistorical(SubSeq(df, 1, 3))]

\* the next completed bar reaches both sweeps
FillSweep ==
    /\ last_processed < Len(df)
    /\ LET current_index == last_processed + 1
       IN  /\ active_fvgs' = CheckFvgFillStatus(active_fvgs, df, current_index)
           /\ ret' = [ret EXCEPT !.fvgs = UpdateFvgStatus(ret.fvgs, df[current_index],
                                                          current_index)]
           /\ last_processed' = current_index
    /\ UNCHANGED <<df, fvg_phase, metrics, state_file, now, today, req, hist, orch, config, trade, breaker, clock>>

FillNext == FillSweep

SpecFill == FillInit /\ [][FillNext]_vars

(***************************************************************************)
(* A CircuitBreaker under its callers: any settings from a small set, any  *)
(* sequence of protected calls that return or raise, state reads and       *)
(* seconds passing.  hist.recorded lists the outcomes recorded on the      *)
(* breaker, hist.failed_at is the time of the last "F".                    *)
(***************************************************************************)
MaxClock == 7                   \* the clock stops here
MaxBreakerCalls == 8            \* outcomes recorded on the breaker

BreakerSettings ==
    {CircuitBreaker(failure_threshold, success_threshold, timeout) :
        failure_threshold \in {1, 3}, success_threshold \in {1, 2}, timeout \in {1, 2}}

BreakerInit ==
    /\ metrics = RiskMetrics
    /\ state_file = NoFile
    /\ now = 0
    /\ today = 0
    /\ req = NoReq
    /\ config = RiskConfig
    /\ ZoneIdle
    /\ orch = NoOrch
    /\ trade = NoTrade
    /\ breaker \in BreakerSettings
    /\ clock = 1
    /\ ret = [op |-> "__init__", allowed |-> TRUE, outcome |-> ""]
    /\ hist = [recorded |-> <<>>, failed_at |-> None]

\* a call through the wrapper; func returns or raises
WrapperCall ==
    /\ Len(hist.recorded) < MaxBreakerCalls
    /\ \E ok \in BOOLEAN :
        LET call == Wrapper(breaker, clock, ok)
        IN  /\ breaker' = call.cb
            /\ ret' = [op |-> "wrapper", allowed |-> call.outcome # "CIRCUIT_OPEN",
                       outcome |-> call.outcome]
            /\ hist' = IF call.outcome = "returned"
                       THEN [hist EXCEPT !.recorded = Append(@, "S")]
                       ELSE IF call.outcome = "raised"
                       THEN [recorded |-> Append(hist.recorded, "F"), failed_at |-> clock]
                       ELSE hist
    /\ UNCHANGED <<metrics, state_file, now, today, req, config, zoneVars, orch, trade, clock>>

\* can_execute on its own
CanExecuteCall ==
    /\ LET gate == CanExecute(breaker, clock)
       IN  /\ breaker' = gate.cb
           /\ ret' = [op |-> "can_execute", allowed |-> gate.allowed, outcome |-> ""]
    /\ UNCHANGED <<metrics, state_file, now, today, req, hist, config, zoneVars, orch, trade, clock>>

\* a second passes
BreakerTick ==
    /\ clock < MaxClock
    /\ clock' = clock + 1
    /\ UNCHANGED <<riskVars, zoneVars, orch, trade, breaker>>

BreakerNext == WrapperCall \/ CanExecuteCall \/ BreakerTick

SpecBreaker == BreakerInit /\ [][BreakerNext]_vars

(***************************************************************************)
(* _analyze_with_retry under the api_circuit_breaker: every sequence of    *)
(* analyses, the decision service answering, answering unreadably or       *)
(* failing, or build_prompt raising.  hist.recorded lists the analyses     *)
(* made: "F" where the call failed, "S" where the service answered.        *)
(***************************************************************************)
ServiceOutcomes == {"decision", "unparsable", "api_error", "prompt_error"}

\* analyze_setup: build_prompt runs before the try and what it raises
\* leaves the method; whatever query_claude_with_retry raises is caught and
\* returned as {'success': False, 'error': ...}
AnalyzeSetup(service) ==
    IF service = "prompt_error" THEN [raised |-> TRUE, success |-> FALSE]
    ELSE [raised |-> FALSE, success |-> service = "decision"]

\* _analyze_with_retry: what it hands back and the breaker afterwards
AnalyzeWithRetry(cb, time, service) ==
    LET gate == CanExecute(cb, time)
    IN  IF ~gate.allowed THEN [result |-> "skipped", cb |-> gate.cb]
        ELSE LET result == AnalyzeSetup(service)
             IN  IF result.raised
                 THEN [result |-> "raised", cb |-> RecordFailure(gate.cb, time)]
                 ELSE [result |-> IF result.success THEN "decision" ELSE "failure",
                       cb |-> RecordSuccess(gate.cb)]

ApiInit ==
    /\ metrics = RiskMetrics
    /\ state_file = NoFile
    /\ now = 0
    /\ today = 0
    /\ req = NoReq
    /\ config = RiskConfig
    /\ ZoneIdle
    /\ orch = NoOrch
    /\ trade = NoTrade
    /\ BreakerIdle
    /\ ret = [op |-> "__init__", result |-> "", service |-> ""]
    /\ hist = [recorded |-> <<>>, failed_at |-> None]

AnalyzeWithRetryCall ==
    /\ Len(hist.recorded) < MaxBreakerCalls
    /\ \E service \in ServiceOutcomes :
        LET call == AnalyzeWithRetry(breaker, clock, service)
        IN  /\ breaker' = call.cb
            /\ ret' = [op |-> "_analyze_with_retry", result |-> call.result,
                       service |-> IF call.result = "skipped" THEN "" ELSE service]
            /\ hist' = IF call.result = "skipped" THEN hist
                       ELSE IF service \in {"api_error", "prompt_error"}
                       THEN [recorded |-> Append(hist.recorded, "F"), failed_at |-> clock]
                       ELSE [hist EXCEPT !.recorded = Append(@, "S")]
    /\ UNCHANGED <<metrics, state_file, now, today, req, config, zoneVars, orch, trade, clock>>

\* half a minute passes between two bars
ApiTick ==
    /\ clock < 30 * MaxClock
    /\ clock' = clock + 30
    /\ UNCHANGED <<riskVars, zoneVars, orch, trade, breaker>>

ApiNext == AnalyzeWithRetryCall \/ ApiTick

SpecApi == ApiInit /\ [][ApiNext]_vars

(***************************************************************************)
(* Properties of the risk gate                                             *)
(***************************************************************************)
\* a halt trigger of section 4.3 holds of the metrics m
HaltTrigger(m) ==
    \/ m.daily_pnl <= -Pts(MaxDailyLoss)
    \/ m.consecutive_losses >= MaxConsecutiveLosses
    \/ m.current_drawdown >= MaxDrawdownPercent

DailyCountersZero(m) ==
    /\ m.daily_trades = 0
    /\ m.daily_pnl = 0
    /\ m.daily_wins = 0
    /\ m.daily_losses = 0
    /\ m.daily_volume = 0

C3_HaltedAfterExit ==
    (ret.op = "record_trade_exit" /\ HaltTrigger(metrics))
        => metrics.state = HALTED

\* a loss that started the cooldown and breached the drawdown limit only
C3_Witness ==
    /\ ret.op = "record_trade_exit"
    /\ ret.result = "LOSS"
    /\ metrics.current_drawdown >= MaxDrawdownPercent
    /\ metrics.daily_pnl > -Pts(MaxDailyLoss)
    /\ metrics.consecutive_losses < MaxConsecutiveLosses
    /\ metrics.state = HALTED

\* C4 as claimed: whenever a halt trigger holds, check_pre_trade rejects and
\* leaves the gate HALTED.
C4_NoTradeUnderTrigger ==
    (ret.op = "check_pre_trade" /\ HaltTrigger(metrics))
        => (~ret.allowed /\ metrics.state = HALTED)

FreshLossReason(m) ==
    IF m.daily_pnl <= -Pts(MaxDailyLoss)
    THEN "Daily loss limit reached"
    ELSE "Consecutive loss limit reached"

\* C6 as claimed: after three LOSS exits on a fresh gate the gate is HALTED
\* and every check_pre_trade that follows is rejected for the consecutive
\* loss limit.
C6_ThreeLossesNameConsecutive ==
    hist.fresh_losses = MaxConsecutiveLosses
        => /\ metrics.state = HALTED
           /\ ret.op = "check_pre_trade"
                => /\ ~ret.allowed
                   /\ ret.reason.state_reason = "Consecutive loss limit reached"

\* C6 amended: after three LOSS exits on a fresh gate the gate is HALTED and
\* every check_pre_trade that follows returns (False, "Trading halted: r"),
\* whatever the request, where r names the daily loss limit when the three
\* losses reached it and the consecutive loss limit otherwise.
C6_ThreeLossesHalt ==
    hist.fresh_losses = MaxConsecutiveLosses
        => /\ metrics.state = HALTED
           /\ metrics.state_reason = FreshLossReason(metrics)
           /\ ret.op = "check_pre_trade"
                => /\ ~ret.allowed
                   /\ ret.reason
                        = Reason("Trading halted", FreshLossReason(metrics), 0)

C6_Witness ==
    /\ hist.fresh_losses = MaxConsecutiveLosses
    /\ ret.op = "check_pre_trade"
    /\ ret.reason.state_reason = "Consecutive loss limit reached"

\* C7 as claimed: from a loss that left the gate in COOLDOWN until that
\* loss's time plus the cooldown, no can_trade and no check_pre_trade answers
\* allowed, whatever happens in between on the same day.
C7_NoTradeDuringCooldown ==
    (ret.op \in {"can_trade", "check_pre_trade"}
       /\ hist.cooldown_until # None /\ now < hist.cooldown_until)
        => ~ret.allowed

\* C8 as claimed: on a gate in COOLDOWN whose cooldown has run out, the next
\* can_trade or check_pre_trade call leaves the gate NORMAL.
C8_BothCallsEndCooldown ==
    [][(metrics.state = COOLDOWN /\ CooldownRemaining(metrics, now) = 0
          /\ ret'.op \in {"can_trade", "check_pre_trade"})
        => metrics'.state = NORMAL]_vars

\* C8 amended: on a gate in COOLDOWN whose cooldown has run out,
\* check_pre_trade moves the gate to NORMAL; can_trade no longer answers
\* with the cooldown but changes nothing, the state stays COOLDOWN.
C8_CheckPreTradeEndsCooldown ==
    [][(metrics.state = COOLDOWN /\ CooldownRemaining(metrics, now) = 0)
        => /\ ret'.op = "check_pre_trade" => metrics'.state = NORMAL
           /\ ret'.op = "can_trade"
                => /\ metrics' = metrics
                   /\ ret'.reason.text # "Cooldown"]_vars

\* check_pre_trade has just ended a cooldown that had run out
C8_Witness ==
    /\ ret.op = "check_pre_trade"
    /\ metrics.state = NORMAL
    /\ metrics.last_loss_time # None
    /\ metrics.last_loss_time + CoolDownMinutes = now
    /\ metrics.consecutive_losses > 0
    /\ state_file.state = COOLDOWN

\* C9 as claimed: a pre-trade check answered on a day without any recorded
\* entry or exit sees the daily counters at zero, and a gate constructed on
\* a later date than its state file has the daily counters at zero and the
\* consecutive losses of the file.
C9_DailyResetKeepsLosses ==
    /\ (ret.op = "check_pre_trade" /\ ~hist.activity_today)
        => DailyCountersZero(metrics)
    /\ (ret.op = "__init__" /\ state_file.exists /\ state_file.date # today)
        => /\ DailyCountersZero(metrics)
           /\ metrics.consecutive_losses = state_file.consecutive_losses

\* the checks of check_pre_trade, numbered in the order of section 4.1
CheckNumbers == 1..13

\* check k rejects the request r put at time t to a gate with metrics m
Fails(k, m, t, r) ==
    LET stop_distance == Abs(r.entry - r.stop)
        target_distance == Abs(r.target - r.entry)
    IN  CASE k = 1 -> m.state = HALTED
          [] k = 2 -> m.state = COOLDOWN /\ m.last_loss_time # None
                        /\ t < m.last_loss_time + CoolDownMinutes
          [] k = 3 -> m.daily_trades >= MaxDailyTrades
          [] k = 4 -> m.daily_pnl <= -Pts(MaxDailyLoss)
          [] k = 5 -> m.consecutive_losses >= MaxConsecutiveLosses
          [] k = 6 -> r.quantity > MaxPositionSize
          [] k = 7 -> stop_distance < Pts(StopLossMin)
          [] k = 8 -> stop_distance > Pts(StopLossMax)
          [] k = 9 -> stop_distance = 0
                        \/ target_distance < MinRiskReward * stop_distance
          [] k = 10 -> r.confidence < ConfidenceThreshold
          [] k = 11 -> \/ r.direction = "LONG" /\ r.stop >= r.entry
                       \/ r.direction = "SHORT" /\ r.stop <= r.entry
          [] k = 12 -> \/ r.direction = "LONG" /\ r.target <= r.entry
                       \/ r.direction = "SHORT" /\ r.target >= r.entry
          [] OTHER -> m.daily_volume + r.quantity > DailyVolumeCap

\* the first check that rejects, 0 when none does
FirstFailing(m, t, r) ==
    LET failing == {k \in CheckNumbers : Fails(k, m, t, r)}
    IN  IF failing = {} THEN 0
        ELSE CHOOSE k \in failing : \A j \in failing : k <= j

\* the wording of the rejection of check k
FailText(k, r) ==
    CASE k = 0 -> "OK"
      [] k = 1 -> "Trading halted"
      [] k = 2 -> "Cooldown active"
      [] k = 3 -> "Daily trade limit reached"
      [] k = 4 -> "Daily loss limit reached"
      [] k = 5 -> "Consecutive loss limit"
      [] k = 6 -> "Position size exceeds max"
      [] k = 7 -> "Stop too tight"
      [] k = 8 -> "Stop too wide"
      [] k = 9 -> "R/R below min"
      [] k = 10 -> "Confidence below threshold"
      [] k = 11 -> IF r.direction = "LONG" THEN "LONG stop must be below entry"
                   ELSE "SHORT stop must be above entry"
      [] k = 12 -> IF r.direction = "LONG" THEN "LONG target must be above entry"
                   ELSE "SHORT target must be below entry"
      [] OTHER -> "Daily volume limit would be exceeded"

\* the only state changes of a check stopped at k: an expired cooldown is
\* cleared once the cooldown check is passed, and the two loss checks halt
LeftBy(k, m) ==
    LET cleared == IF m.state = COOLDOWN /\ k \notin {1, 2}
                   THEN [m EXCEPT !.state = NORMAL, !.state_reason = ""]
                   ELSE m
    IN  IF k = 4
        THEN [cleared EXCEPT !.state = HALTED,
                             !.state_reason = "Daily loss limit reached"]
        ELSE IF k = 5
        THEN [cleared EXCEPT !.state = HALTED,
                             !.state_reason = "Consecutive loss limit reached"]
        ELSE cleared

\* C5: check_pre_trade answers with the first failing check in the order
\* halted, active cooldown, daily trades, daily loss, consecutive losses,
\* position size, stop too tight, stop too wide, R/R, confidence, stop side,
\* target side, daily volume; checks after it change nothing; and the
\* answer is (True, "OK") exactly when every check passes.
C5_FixedOrder ==
    [][ret'.op = "check_pre_trade"
        => LET k == FirstFailing(metrics, now, req')
           IN  /\ ret'.allowed = (k = 0)
               /\ ret'.reason.text = FailText(k, req')
               /\ (ret'.reason = OK) = (k = 0)
               /\ metrics' = LeftBy(k, metrics)]_vars

\* a request with too low a confidence and its stop on the wrong side is
\* rejected for the confidence, the earlier of the two checks
C5_Witness ==
    /\ ret.op = "check_pre_trade"
    /\ ~ret.allowed
    /\ ret.reason.text = "Confidence below threshold"
    /\ req.direction = "SHORT"
    /\ req.stop < req.entry
    /\ req.quantity <= MaxPositionSize

(***************************************************************************)
(* Properties of the zone registry                                         *)
(***************************************************************************)
\* C1: whatever bars were loaded at startup and processed since, and
\* whatever fills the bars and the live price made, no two unfilled zones
\* of the same type in active_fvgs overlap, where a and b overlap unless
\* a.bottom >= b.top or b.bottom >= a.top.
C1_NoOverlappingZones ==
    \A i, j \in 1..Len(active_fvgs) :
        LET a == active_fvgs[i]
            b == active_fvgs[j]
        IN  (i # j /\ a.type = b.type /\ ~a.filled /\ ~b.filled)
                => (a.bottom >= b.top \/ b.bottom >= a.top)

\* the registry holds a zone that displaced a larger overlapping gap of the
\* same type which the bars have not filled
C1_Witness ==
    /\ fvg_phase = "live"
    /\ \E i \in 1..Len(active_fvgs), k \in 3..Len(df) :
        LET g == GapAt(df, k)
            z == active_fvgs[i]
        IN  /\ g # <<>>
            /\ g[1].type = z.type
            /\ ~z.filled
            /\ ~IsFvgFilled(g[1], df, k)
            /\ g[1].gap_size > z.gap_size
            /\ ~(g[1].bottom >= z.top \/ z.bottom >= g[1].top)

(***************************************************************************)
(* Properties of the live orchestrator                                     *)
(***************************************************************************)
\* C10: a step that adds a row to the signal file adds exactly one, made
\* check_pre_trade once and was allowed (the gate allows that request in
\* the state the step started from), handed generate_signal exactly the
\* checked direction, entry, stop, target and quantity (the row holds the
\* direction and the prices to two decimals), and called record_trade_entry
\* once with that direction and quantity; a step that adds no row calls
\* record_trade_entry not at all.
C10_SignalAfterAllowedCheck ==
    [][LET t == orch'.trace
           c == t.checked
           n == Len(orch.signals)
       IN  /\ orch'.signals # orch.signals
                => /\ Len(orch'.signals) = n + 1
                   /\ SubSeq(orch'.signals, 1, n) = orch.signals
                   /\ t.checks = 1
                   /\ t.allowed
                   /\ CheckPreTrade(metrics, now, c.direction, c.entry, c.stop,
                                    c.target, c.quantity, c.confidence).allowed
                   /\ t.signal.decision = c.direction
                   /\ t.signal.entry = c.entry
                   /\ t.signal.stop = c.stop
                   /\ t.signal.target = c.target
                   /\ t.signal.adjusted_size = c.quantity
                   /\ orch'.signals[n + 1]
                        = [time |-> now, decision |-> c.direction,
                           entry |-> Fmt2(c.entry), stop |-> Fmt2(c.stop),
                           target |-> Fmt2(c.target)]
                   /\ t.entries = 1
                   /\ t.entered = [direction |-> c.direction,
                                   quantity |-> c.quantity]
                   /\ metrics'.daily_trades = metrics.daily_trades + 1
                   /\ metrics'.daily_volume = metrics.daily_volume + c.quantity
           /\ (orch' # orch /\ orch'.signals = orch.signals)
                => /\ t.entries = 0
                   /\ metrics'.daily_trades = metrics.daily_trades
                   /\ metrics'.daily_volume = metrics.daily_volume
           /\ metrics'.daily_trades # metrics.daily_trades
                => orch'.signals # orch.signals]_vars

\* after one signal was written and recorded, the gate allowed a second
\* one whose write failed: one row, one recorded entry
C10_Witness ==
    /\ Len(orch.signals) = 1
    /\ metrics.daily_trades = 1
    /\ orch.trace.step = "not_written"
    /\ orch.trace.allowed
    /\ orch.trace.signal.decision = "SHORT"
    /\ orch.trace.entries = 0

(***************************************************************************)
(* Properties of the orchestrator loop and of the zone registry            *)
(***************************************************************************)
RECURSIVE FeedBars(_, _, _, _)
\* the registry after the bars i..n of d have each been fed to it once, in
\* order: gap detection on the bar's triple, then the completed-bar fill check
FeedBars(fvgs, d, i, n) ==
    IF i > n THEN fvgs
    ELSE FeedBars(CheckFvgFillStatus(FindNewFvgs(fvgs, d, i), d, i), d, i + 1, n)

\* C11: after every iteration of the live loop, blocked by the risk gate or
\* not, every completed bar of the stream has been fed to the registry; and
\* when an iteration finds one or more bars that were not fed yet, the
\* registry it leaves is the one obtained by feeding each of them once, in
\* order (followed by the live-price check of the iteration, when it read a
\* price).
C11_EveryBarFedOnce ==
    [][LiveIteration =>
        /\ last_processed' = Len(df)
        /\ (last_processed # None /\ last_processed' # last_processed)
            => LET fed == FeedBars(active_fvgs, df, last_processed + 1, Len(df))
                   p == orch'.current_price
               IN  active_fvgs' = IF p = None THEN fed
                                  ELSE CheckLiveFvgFills(fed, p)]_vars

\* C12: every iteration of the live loop that polls a price runs the
\* live-price fill check with it, new bar or not: after the iteration no
\* unfilled zone of the registry has its fill price touched by the polled
\* price.
C12_LiveFillsEveryPoll ==
    [][(LiveIteration /\ orch'.trace.step # "blocked" /\ orch'.current_price # None)
        => CheckLiveFvgFills(active_fvgs', orch'.current_price) = active_fvgs']_vars

\* C13: the live orchestrator records no trade entry while a position is
\* open, so the gate's open_positions never exceeds 1.
C13_AtMostOneOpenPosition == metrics.open_positions <= 1

\* the live loop keeps iterating (while True, with a sleep between polls)
SpecOrchLive == OrchInit /\ [][OrchNext]_vars /\ WF_vars(LiveIteration)

\* C14: every trade entry the live orchestrator records is eventually
\* followed by a record_trade_exit call on the gate.
C14_EntryLeadsToExit ==
    (ret.op = "record_trade_entry") ~> (ret.op = "record_trade_exit")

\* the prices a context is asked for: the price levels, two prices between
\* them and one beyond them on each side
QueryPrices == Levels \cup {Pts(101) + 500, Pts(108) + 250, Pts(98), Pts(115)}

\* the zones of the registry fvgs that carry the index are all unfilled
UnfilledIn(fvgs, index) ==
    \A k \in 1..Len(fvgs) : fvgs[k].index = index => ~fvgs[k].filled

\* the index of every zone of the list is that of an unfilled zone of fvgs
AllUnfilledIn(fvgs, zones) ==
    \A k \in 1..Len(zones) : UnfilledIn(fvgs, zones[k].index)

\* C15: in every state of the registry, reached by the startup scan,
\* completed-bar updates and live-price updates, the list _process_bar hands
\* to the context holds no filled zone, and the context parse_fvg_zones and
\* find_nearest_fvgs build from the registry for any price holds no filled
\* zone: not in its zone lists, not as nearest bullish or bearish zone and
\* not as the zone the price is in.
C15_FilledNeverOffered ==
    /\ \A k \in 1..Len(ActiveFvgs(active_fvgs)) : ~ActiveFvgs(active_fvgs)[k].filled
    /\ AllUnfilledIn(active_fvgs, ActiveFvgs(active_fvgs))
    /\ \A p \in QueryPrices :
        LET c == AnalyzeMarketContext(p, active_fvgs)
        IN  /\ AllUnfilledIn(active_fvgs, c.all_fvgs.bullish)
            /\ AllUnfilledIn(active_fvgs, c.all_fvgs.bearish)
            /\ AllUnfilledIn(active_fvgs, c.nearest_bullish_fvg)
            /\ AllUnfilledIn(active_fvgs, c.nearest_bearish_fvg)
            /\ AllUnfilledIn(active_fvgs, c.price_in_zone)

\* the registry holds a filled zone that lies nearer to a price, on the side
\* find_nearest_fvgs looks at, than the unfilled zone returned for that price
C15_Witness ==
    \E p \in QueryPrices :
        LET all == FindNearestFvgs(p, ParseFvgZonesKeepsFilled(active_fvgs))
            c == AnalyzeMarketContext(p, active_fvgs)
        IN  \/ /\ ~AllUnfilledIn(active_fvgs, all.nearest_bullish)
               /\ c.nearest_bullish_fvg # <<>>
            \/ /\ ~AllUnfilledIn(active_fvgs, all.nearest_bearish)
               /\ c.nearest_bearish_fvg # <<>>

(***************************************************************************)
(* Properties of the decision context                                      *)
(***************************************************************************)
\* the positions of the list whose zone lies below the price (top < price)
Below(zones, price) == {k \in 1..Len(zones) : zones[k].top < price}

\* the positions of the list whose zone lies above the price (bottom > price)
Above(zones, price) == {k \in 1..Len(zones) : zones[k].bottom > price}

\* the returned zone is the zone at position k of the list
SameZone(returned, zone) ==
    /\ returned.index = zone.index
    /\ returned.top = zone.top
    /\ returned.bottom = zone.bottom

C18_NoFilledZoneKept ==
    \A k \in 1..Len(active_fvgs) : ~active_fvgs[k].filled

\* the zone is in the list, with its type and edges
KeptIn(fvgs, zone) ==
    \E j \in 1..Len(fvgs) :
        /\ fvgs[j].index = zone.index
        /\ fvgs[j].type = zone.type
        /\ fvgs[j].top = zone.top
        /\ fvgs[j].bottom = zone.bottom

\* the last bar of d closes a gap of the zone's type that overlaps the zone
\* and is strictly smaller, and the list holds that gap as a zone
Displaced(fvgs, d, zone) ==
    /\ Len(d) >= 3
    /\ GapAt(d, Len(d)) # <<>>
    /\ LET new_fvg == GapAt(d, Len(d))[1]
       IN  /\ new_fvg.type = zone.type
           /\ new_fvg.gap_size < zone.gap_size
           /\ ZonesOverlap(zone.bottom, zone.top, new_fvg.bottom, new_fvg.top)
           /\ KeptIn(fvgs, new_fvg)

\* every unfilled zone of the registry is in the list _process_bar hands on
\* and in the zone lists of the context
OfferedAll(fvgs) ==
    \A k \in 1..Len(fvgs) :
        ~fvgs[k].filled =>
            LET zones == AnalyzeMarketContext(Pts(100), fvgs).all_fvgs
            IN  /\ KeptIn(ActiveFvgs(fvgs), fvgs[k])
                /\ \E j \in 1..Len(zones[fvgs[k].type]) :
                        zones[fvgs[k].type][j].index = fvgs[k].index

\* the price is at or beyond the fill price of the zone
Touches(price, zone) ==
    \/ zone.type = "bearish" /\ price >= zone.top
    \/ zone.type = "bullish" /\ price <= zone.bottom

\* C19: in every step of the running registry (after the startup scan) an
\* unfilled zone stays in active_fvgs, unfilled or from now on filled, unless
\* the bar just processed closed a strictly smaller overlapping gap of the
\* same type, which took its place, or the step is a live-price update whose
\* price filled the zone; and every unfilled zone of the registry is
\* offered to the decision context, whatever its age.
C19_NoAgeEviction ==
    [][fvg_phase = "live" =>
        /\ \/ \A k \in 1..Len(active_fvgs) :
                ~active_fvgs[k].filled =>
                    \/ KeptIn(active_fvgs', active_fvgs[k])
                    \/ Displaced(active_fvgs', df', active_fvgs[k])
           \/ /\ df' = df
              /\ last_processed' = last_processed
              /\ \E price \in Levels :
                    \A k \in 1..Len(active_fvgs) :
                        ~active_fvgs[k].filled =>
                            \/ KeptIn(active_fvgs', active_fvgs[k])
                            \/ Touches(price, active_fvgs[k])
        /\ OfferedAll(active_fvgs')]_vars

\* the zone of the third bar is still unfilled in the registry after the
\* last bar the file can hold has been processed
C19_Witness ==
    /\ fvg_phase = "live"
    /\ Len(df) = MaxBars
    /\ last_processed = Len(df)
    /\ \E k \in 1..Len(active_fvgs) :
        active_fvgs[k].index = 3 /\ ~active_fvgs[k].filled

\* C20: in every step of the registry a zone that stays in active_fvgs keeps
\* its type, top, bottom and gap_size, and a zone that was filled before
\* the step is filled after it.
C20_ZoneFieldsFrozen ==
    [][\A k \in 1..Len(active_fvgs), j \in 1..Len(active_fvgs') :
        active_fvgs'[j].index = active_fvgs[k].index =>
            /\ active_fvgs'[j].type = active_fvgs[k].type
            /\ active_fvgs'[j].top = active_fvgs[k].top
            /\ active_fvgs'[j].bottom = active_fvgs[k].bottom
            /\ active_fvgs'[j].gap_size = active_fvgs[k].gap_size
            /\ active_fvgs[k].filled => active_fvgs'[j].filled]_vars

\* a filled zone next to an unfilled one after a bar has been processed
C20_Witness ==
    /\ last_processed = Len(df)
    /\ \E k, j \in 1..Len(active_fvgs) :
        /\ active_fvgs[k].filled
        /\ active_fvgs[k].gap_size = active_fvgs[k].top - active_fvgs[k].bottom
        /\ ~active_fvgs[j].filled

(***************************************************************************)
(* Properties of gap detection                                             *)
(***************************************************************************)
\* the zones of a list that carry the index i and the type fvg_type
ZonesAt(found, i, fvg_type) ==
    {k \in 1..Len(found) : found[k].index = i /\ found[k].type = fvg_type}

\* C21: for every bar sequence (low <= high) find_fvgs_in_data emits, for
\* each position i from the third bar on, a bullish zone with top = the
\* low of bar i and bottom = the high of bar i-2 exactly when that
\* difference is at least the minimum gap size, a bearish zone with top =
\* the low of bar i-2 and bottom = the high of bar i exactly when that
\* difference is at least the minimum, never both for one position and
\* nothing for fewer than three bars; every emitted zone has top > bottom
\* and gap_size = top - bottom >= the minimum.
C21_GapDetection ==
    LET found == FindFvgsInData(df)
    IN  /\ Len(df) < 3 => found = <<>>
        /\ \A k \in 1..Len(found) :
            /\ found[k].index \in 3..Len(df)
            /\ found[k].type \in {"bullish", "bearish"}
            /\ found[k].top > found[k].bottom
            /\ found[k].gap_size = found[k].top - found[k].bottom
            /\ found[k].gap_size >= Pts(MinGapSize)
            /\ ~found[k].filled
        /\ \A i \in 3..Len(df) :
            /\ (ZonesAt(found, i, "bullish") # {})
                    <=> (df[i].Low - df[i - 2].High >= Pts(MinGapSize))
            /\ (ZonesAt(found, i, "bearish") # {})
                    <=> (df[i - 2].Low - df[i].High >= Pts(MinGapSize))
            /\ \A k \in ZonesAt(found, i, "bullish") :
                    found[k].top = df[i].Low /\ found[k].bottom = df[i - 2].High
            /\ \A k \in ZonesAt(found, i, "bearish") :
                    found[k].top = df[i - 2].Low /\ found[k].bottom = df[i].High
            /\ Cardinality(ZonesAt(found, i, "bullish")
                            \cup ZonesAt(found, i, "bearish")) <= 1

\* the startup scan has run over a file with a gap of exactly the minimum
\* size and a gap below it
C21_Witness ==
    /\ fvg_phase = "live"
    /\ Len(df) >= 4
    /\ \E i \in 3..Len(df) : df[i].Low - df[i - 2].High = Pts(MinGapSize)
    /\ \E i \in 3..Len(df) :
        /\ df[i].Low > df[i - 2].High
        /\ df[i].Low - df[i - 2].High < Pts(MinGapSize)
    /\ \E k \in 1..Len(active_fvgs) : active_fvgs[k].gap_size = Pts(MinGapSize)

(***************************************************************************)
(* Properties of check_pre_trade under every configuration                 *)
(***************************************************************************)
\* the reason text is given to no request with entry # stop that the gate
\* could be asked under its configuration: it tells the zero risk apart
ZeroRiskReason(text) ==
    \A direction \in Directions, stop \in StopPrices \ {EntryPrice}, target \in TargetPrices, confidence \in Confidences :
        CheckPreTrade(metrics, now, direction, EntryPrice, stop, target,
                      req.quantity, confidence).reason.text # text

\* C22: check_pre_trade called with entry == stop (on a gate whose state,
\* limit and position-size checks pass) returns (False, reason) with a
\* reason specific to zero risk, for every admissible configuration of
\* stop_loss_min, stop_loss_max and min_risk_reward.
C22_ZeroRiskRejected ==
    (ret.op = "check_pre_trade" /\ req.entry = req.stop
        /\ req.quantity <= MaxPositionSize)
    => (~ret.allowed /\ ZeroRiskReason(ret.reason.text))

(***************************************************************************)
(* Properties of the constructor                                           *)
(***************************************************************************)
\* the persisted state cannot be read or used
Unusable(f) ==
    \/ ~f.exists
    \/ ~f.valid_json
    \/ (f.state # "" /\ f.state \notin RiskStates)

\* C23: when the state file is missing, unparsable or holds an invalid
\* field value such as an unknown state name, the constructed gate is in
\* the fresh default state: NORMAL with every counter at zero.
C23_UnusableFileFreshGate ==
    (ret.op = "__init__" /\ Unusable(state_file)) => metrics = RiskMetrics

(***************************************************************************)
(* Properties of get_position_size                                         *)
(***************************************************************************)
\* max(1, floor(x / 2)), floor stated without the division
Halved(x) ==
    LET half == CHOOSE h \in (0 - 2 * MaxPositionSize)..(2 * MaxPositionSize) :
                    2 * h <= x /\ x < 2 * h + 2
    IN  IF half < 1 THEN 1 ELSE half

\* C24: get_position_size(base) is s2, with s0 = min(base,
\* max_position_size), s1 = max(1, floor(s0 / 2)) if consecutive_losses >= 2
\* else s0, and s2 = max(1, floor(s1 / 2)) if daily_trades >=
\* max_daily_trades - 1 else s1, so that both halvings compound when both
\* conditions hold; the call leaves the gate's state as it was.
C24_PositionSize ==
    [][ret'.op = "get_position_size" =>
        LET base == ret'.base_size
            s0 == IF base <= MaxPositionSize THEN base ELSE MaxPositionSize
            s1 == IF metrics.consecutive_losses >= 2 THEN Halved(s0) ELSE s0
            s2 == IF metrics.daily_trades >= MaxDailyTrades - 1
                  THEN Halved(s1) ELSE s1
        IN  /\ ret'.size = s2
            /\ metrics' = metrics
            /\ state_file' = state_file]_vars

\* both reductions were applied to one request and the second one still
\* changed the size
C24_Witness ==
    /\ ret.op = "get_position_size"
    /\ metrics.consecutive_losses >= 2
    /\ metrics.daily_trades >= MaxDailyTrades - 1
    /\ ret.base_size > MaxPositionSize
    /\ ret.size = 2

(***************************************************************************)
(* Properties of the exit plan                                             *)
(***************************************************************************)
\* q = max(1, floor(0.33 * quantity)), the floor stated by its inequality
PartialSize(q, quantity) ==
    \/ q = 1 /\ 33 * quantity < 200
    \/ q > 1 /\ 100 * q <= 33 * quantity /\ 33 * quantity < 100 * q + 100

\* C25: create_exit_plan(direction, entry, stop, target, quantity) with
\* risk = |entry - stop| returns, for LONG, target_1 = entry + risk,
\* target_2 = entry + 2 risk, target_3 = entry + 3.5 risk, breakeven_trigger
\* = entry + 1.5 risk, trailing_trigger = entry + 2 risk (subtracted for
\* SHORT), trailing_offset = 0.5 risk, initial_stop = stop and the partial
\* sizes (q1, q2, quantity - q1 - q2) with q1 = q2 = max(1, floor(0.33
\* quantity)); (LONG, 100, 90, 140, 10) gives 110, 120, 135, 115, 120, 5
\* and (3, 3, 4).
C25_ExitPlanLevels ==
    trade.op = "create_exit_plan" =>
        LET plan == trade.exit_plan
            entry == trade.entry
            risk == IF entry >= trade.stop THEN entry - trade.stop
                    ELSE trade.stop - entry
            side == IF trade.direction = "LONG" THEN 1 ELSE 0 - 1
        IN  /\ plan.target_1 - entry = side * risk
            /\ plan.target_2 - entry = side * 2 * risk
            /\ 2 * (plan.target_3 - entry) = side * 7 * risk
            /\ 2 * (plan.breakeven_trigger - entry) = side * 3 * risk
            /\ plan.trailing_trigger - entry = side * 2 * risk
            /\ 2 * plan.trailing_offset = risk
            /\ plan.initial_stop = trade.stop
            /\ PartialSize(plan.partial_sizes[1], trade.quantity)
            /\ plan.partial_sizes[2] = plan.partial_sizes[1]
            /\ plan.partial_sizes[3] = trade.quantity - plan.partial_sizes[1]
                                            - plan.partial_sizes[2]
            /\ (trade.direction = "LONG" /\ entry = Pts(100)
                    /\ trade.stop = Pts(90) /\ trade.quantity = 10)
                => /\ <<plan.target_1, plan.target_2, plan.target_3>>
                        = <<Pts(110), Pts(120), Pts(135)>>
                   /\ <<plan.breakeven_trigger, plan.trailing_trigger,
                        plan.trailing_offset>> = <<Pts(115), Pts(120), Pts(5)>>
                   /\ plan.partial_sizes = <<3, 3, 4>>

\* the plan of the example has been made
C25_Witness ==
    /\ trade.op = "create_exit_plan"
    /\ trade.direction = "LONG" /\ trade.entry = Pts(100)
    /\ trade.stop = Pts(90) /\ trade.target = Pts(140) /\ trade.quantity = 10
    /\ trade.exit_plan.target_3 = Pts(135)

(***************************************************************************)
(* Properties of the exit recommendation                                   *)
(***************************************************************************)
\* the call found a reversal
Reversed ==
    /\ trade.recent_bars # <<>>
    /\ DetectReversal(trade.direction, trade.current_price,
                      trade.market_data.ema21, trade.market_data.ema75,
                      trade.recent_bars)

\* the profit in points of the price handed to the call
CurrentPnl ==
    IF trade.direction = "LONG" THEN trade.current_price - trade.entry
    ELSE trade.entry - trade.current_price

\* C26: whenever get_exit_recommendation detects a reversal it returns
\* close_position = true with move_stop and take_partial both None, also
\* when the time exit, a partial target, the breakeven or the trailing
\* condition holds; every result with close_position = true carries no
\* stop move and no partial exit.
C26_CloseCarriesNothingElse ==
    trade.op = "get_exit_recommendation" =>
        /\ Reversed => /\ trade.actions.close_position
                       /\ trade.actions.close_reason = "Reversal detected"
        /\ trade.actions.close_position
            => (trade.actions.move_stop = None /\ trade.actions.take_partial = <<>>)

\* a reversal found on a call for which the time limit has passed in
\* profit, a partial target is reached and the breakeven move is due
C26_Witness ==
    /\ trade.op = "get_exit_recommendation"
    /\ Reversed
    /\ trade.bars_in_trade >= trade.exit_plan.time_limit_bars
    /\ CurrentPnl > 0
    /\ CheckPartialExit(trade.direction, trade.current_price, trade.exit_plan,
                        trade.partials_taken) # <<>>
    /\ ShouldMoveToBreakeven(trade.direction, trade.current_price, trade.entry,
                             trade.current_stop,
                             trade.exit_plan.breakeven_trigger)
    /\ trade.actions.close_position

\* the actions the same call returns when no bar has passed in the trade
ActionsAtBarZero ==
    GetExitRecommendation(trade.direction, trade.entry, trade.current_price,
                          trade.current_stop, trade.exit_plan,
                          trade.partials_taken, 0, trade.highest_since_entry,
                          trade.lowest_since_entry, trade.market_data,
                          trade.recent_bars)

\* C27: the time exit closes the position exactly when bars_in_trade >=
\* time_limit_bars and the profit is above -10 points; at or past the limit
\* with a loss of 10 points or more no time-based close is recommended and
\* the partial-exit and stop rules are evaluated as if no time had passed;
\* below the limit the time exit never fires.  (A detected reversal closes
\* before the time exit is looked at.)
C27_TimeExit ==
    (trade.op = "get_exit_recommendation" /\ ~Reversed) =>
        LET limit_reached == trade.bars_in_trade >= trade.exit_plan.time_limit_bars
            time_close == /\ trade.actions.close_position
                          /\ trade.actions.close_reason = "Time exit"
        IN  /\ time_close <=> (limit_reached /\ CurrentPnl > 0 - Pts(10))
            /\ trade.actions.close_position => time_close
            /\ (limit_reached /\ CurrentPnl <= 0 - Pts(10))
                => trade.actions = ActionsAtBarZero
            /\ ~limit_reached => trade.actions = ActionsAtBarZero

\* the call of the example: bars_in_trade = time_limit_bars at a loss of 15
\* points, and no close
C27_Witness ==
    /\ trade.op = "get_exit_recommendation"
    /\ ~Reversed
    /\ trade.bars_in_trade = trade.exit_plan.time_limit_bars
    /\ CurrentPnl = 0 - Pts(15)
    /\ ~trade.actions.close_position

(***************************************************************************)
(* Properties of the managed trade                                         *)
(***************************************************************************)
\* the step hands out a stop of the trailing rule
TrailingStep ==
    /\ trade'.op = "get_exit_recommendation"
    /\ trade'.actions.move_stop # None
    /\ trade'.last_trailing = trade'.actions.move_stop
    /\ trade.current_stop >= trade.entry

\* C28: for a LONG position whose caller applies each trailing-stop
\* recommendation as the new current stop, the accepted trailing stops are
\* non-decreasing over any sequence of price updates, and each one is
\* strictly below the current price of the update that issued it.
C28_TrailingStopMonotonic ==
    [][(trade.direction = "LONG" /\ TrailingStep) =>
        /\ trade.last_trailing # None
            => trade'.actions.move_stop >= trade.last_trailing
        /\ trade'.actions.move_stop < trade'.current_price
        /\ trade'.current_stop = trade'.actions.move_stop]_vars

\* the trailing rule has moved the stop of a LONG trade twice, the price
\* having come back from its high in between
C28_Witness ==
    /\ trade.direction = "LONG"
    /\ trade.op = "get_exit_recommendation"
    /\ trade.trailing_moves >= 2
    /\ trade.current_stop = trade.last_trailing
    /\ trade.current_price < trade.highest_since_entry

(***************************************************************************)
(* Properties of the insertion                                             *)
(***************************************************************************)
\* the zone is unfilled, of the candidate's type, and shares prices with it
Contends(zone, candidate) ==
    /\ ~zone.filled
    /\ zone.type = candidate.type
    /\ zone.bottom < candidate.top
    /\ candidate.bottom < zone.top

\* C29: a candidate that overlaps an unfilled zone of its type whose
\* gap_size is less than or equal to its own is rejected (a tie counts as
\* rejected); otherwise every overlapping unfilled zone of its type is
\* removed and the candidate is inserted; zones that do not overlap it and
\* zones of the other type are left untouched.
C29_SmallerZoneWins ==
    [][(last_processed = None /\ last_processed' # None /\ GapAt(df, Len(df)) # <<>>) =>
        LET candidate == GapAt(df, Len(df))[1]
            rejected == \E k \in 1..Len(active_fvgs) :
                            /\ Contends(active_fvgs[k], candidate)
                            /\ active_fvgs[k].gap_size <= candidate.gap_size
        IN  IF rejected
            THEN active_fvgs' = active_fvgs
            ELSE active_fvgs' =
                    Append(SelectSeq(active_fvgs,
                                     LAMBDA zone : ~Contends(zone, candidate)),
                           candidate)]_vars

\* the example: bullish 102-108 was inserted over an unfilled bullish
\* 100-110, which is gone
C29_Witness ==
    /\ last_processed # None
    /\ df = GapFile(Pts(102), Pts(108), TRUE)
    /\ \E k \in 1..Len(active_fvgs) :
        /\ active_fvgs[k].index = Len(df)
        /\ active_fvgs[k].bottom = Pts(102) /\ active_fvgs[k].top = Pts(108)
    /\ \A k \in 1..Len(active_fvgs) :
        ~(active_fvgs[k].type = "bullish" /\ ~active_fvgs[k].filled
            /\ active_fvgs[k].bottom = Pts(100))
    /\ \E k \in 1..Len(active_fvgs) :
        active_fvgs[k].type = "bearish" /\ ~active_fvgs[k].filled
            /\ active_fvgs[k].bottom = Pts(100)
    /\ \E k \in 1..Len(active_fvgs) :
        active_fvgs[k].type = "bullish" /\ active_fvgs[k].filled
            /\ active_fvgs[k].bottom = Pts(100)

(***************************************************************************)
(* Properties of the fill sweeps                                           *)
(***************************************************************************)
\* a bar after the zone's own has reached the near side of the zone
Touched(zone, upto) ==
    \E j \in (zone.index + 1)..upto :
        \/ zone.type = "bullish" /\ df[j].Low <= zone.bottom
        \/ zone.type = "bearish" /\ df[j].High >= zone.top

\* C30: on the same zones and the same bars, the live sweep
\* (check_fvg_fill_status), the startup scan (is_fvg_filled) and the
\* backtest sweep (update_fvg_status) give the same filled flags: a bullish
\* zone is filled exactly when a bar's low is at or below its bottom, a
\* bearish zone exactly when a bar's high is at or above its top.
C30_SameFilledFlags ==
    (ret.op = "update_fvg_status") =>
        /\ Len(ret.fvgs) = Len(active_fvgs)
        /\ \A k \in 1..Len(active_fvgs) :
            LET touched == Touched(active_fvgs[k], last_processed)
            IN  /\ active_fvgs[k].filled = touched
                /\ IsFvgFilled(active_fvgs[k], SubSeq(df, 1, last_processed),
                               active_fvgs[k].index) = touched
                /\ ret.fvgs[k].filled = touched

\* the live sweep and the startup scan alone do agree with the rule
LiveAndScanAgree ==
    (ret.op = "update_fvg_status") =>
        \A k \in 1..Len(active_fvgs) :
            LET touched == Touched(active_fvgs[k], last_processed)
            IN  /\ active_fvgs[k].filled = touched
                /\ IsFvgFilled(active_fvgs[k], SubSeq(df, 1, last_processed),
                               active_fvgs[k].index) = touched

(***************************************************************************)
(* Properties of the circuit breaker                                       *)
(***************************************************************************)
RECURSIVE Trailing(_, _)
\* how many times in a row the outcome x was recorded last
Trailing(recorded, x) ==
    IF recorded = <<>> \/ recorded[Len(recorded)] # x THEN 0
    ELSE 1 + Trailing(SubSeq(recorded, 1, Len(recorded) - 1), x)

\* more than timeout seconds have passed since the last recorded failure
TimedOut == hist.failed_at # None /\ clock - hist.failed_at > breaker.timeout

\* half-open, or open and due to be found half-open by the next read
HalfOpen == breaker.state = "half-open" \/ (breaker.state = "open" /\ TimedOut)

\* the step is a call of op (the clock stands still during a call)
Called(op) == clock' = clock /\ ret'.op = op

\* C31: the breaker follows its state machine.  Closed, it opens exactly
\* when failure_threshold failures were recorded in a row (a success in
\* between starts the count again).  Open, can_execute answers false until
\* more than timeout seconds have passed since the last failure; from then
\* it is half-open and calls are allowed.  Half-open, it closes with its
\* counters at zero once success_threshold successes are recorded and
\* reopens on any recorded failure.
C31_BreakerStateMachine ==
    [][/\ (breaker.state = "closed" /\ Called("wrapper")) =>
            /\ ret'.allowed
            /\ breaker'.state = IF /\ ret'.outcome = "raised"
                                   /\ Trailing(hist'.recorded, "F") >= breaker.failure_threshold
                                THEN "open" ELSE "closed"
       /\ (breaker.state = "closed" /\ Called("can_execute")) =>
            ret'.allowed /\ breaker' = breaker
       /\ (breaker.state = "open" /\ ~TimedOut /\ (Called("wrapper") \/ Called("can_execute"))) =>
            ~ret'.allowed /\ breaker' = breaker /\ hist' = hist
       /\ (HalfOpen /\ Called("can_execute")) =>
            ret'.allowed /\ breaker'.state = "half-open"
       /\ (HalfOpen /\ Called("wrapper")) =>
            /\ ret'.allowed
            /\ ret'.outcome = "raised" => breaker'.state = "open"
            /\ ret'.outcome = "returned" =>
                IF Trailing(hist'.recorded, "S") >= breaker.success_threshold
                THEN breaker'.state = "closed" /\ breaker'.failures = 0
                        /\ breaker'.successes = 0
                ELSE breaker'.state = "half-open"
      ]_vars

\* a breaker of thresholds 3 and 2: a success started the count again,
\* three failures in a row opened it, the first test call failed and
\* reopened it, two successful test calls closed it
C31_Witness ==
    /\ ret.op = "wrapper"
    /\ breaker.failure_threshold = 3 /\ breaker.success_threshold = 2
    /\ hist.recorded = <<"F", "S", "F", "F", "F", "F", "S", "S">>
    /\ breaker.state = "closed"
    /\ breaker.failures = 0

(***************************************************************************)
(* Properties of the protected analysis                                    *)
(***************************************************************************)
\* C32: every failed call to the decision service is recorded as a failure
\* on the API circuit breaker, so after failure_threshold failed analyses
\* in a row the breaker is open (and the next analysis is skipped).
C32_FailedAnalysesOpenBreaker ==
    (ret.op = "_analyze_with_retry") =>
        /\ (ret.service = "api_error") =>
                breaker.failures >= 1 /\ breaker.last_failure_time = hist.failed_at
        /\ (Trailing(hist.recorded, "F") >= FailureThreshold) =>
                breaker.state = "open"

\* what the code does instead: an analysis whose query failed is recorded
\* as a success, which zeroes the failure count of a closed breaker
ApiErrorRecordedAsSuccess ==
    (ret.op = "_analyze_with_retry" /\ ret.service = "api_error") =>
        /\ ret.result = "failure"
        /\ breaker.state = "closed" => breaker.failures = 0

(***************************************************************************)
(* Properties of the stop moves                                            *)
(***************************************************************************)
\* the stop recommended lies strictly between the current stop and the price
Between ==
    LET move_stop == trade.actions.move_stop
    IN  IF trade.direction = "LONG"
        THEN trade.current_stop < move_stop /\ move_stop < trade.current_price
        ELSE trade.current_price < move_stop /\ move_stop < trade.current_stop

\* the current stop is on the losing side of the entry
StopBehindEntry ==
    IF trade.direction = "LONG" THEN trade.current_stop < trade.entry
    ELSE trade.current_stop > trade.entry

\* C33: every stop move recommended by get_exit_recommendation, the
\* breakeven move (entry + 1 for LONG, entry - 1 for SHORT) or a trailing
\* move, is strictly more favourable than the current stop and does not
\* cross the current price, for every plan of create_exit_plan (any risk
\* above zero); while the current stop is on the losing side of the entry
\* the move is the breakeven move, never a trailing one.
C33_StopMoveFavourable ==
    (trade.op = "get_exit_recommendation" /\ trade.actions.move_stop # None) =>
        /\ Between
        /\ StopBehindEntry =>
            trade.actions.move_stop =
                trade.entry + (IF trade.direction = "LONG" THEN Pts(1) ELSE 0 - Pts(1))

\* what does hold: the move is always beyond the current stop, a trailing
\* move never crosses the price, and the breakeven move does not cross it
\* when one and a half risks are more than the one point of the buffer
StopMoveFavourableAboveBuffer ==
    (trade.op = "get_exit_recommendation" /\ trade.actions.move_stop # None) =>
        /\ IF trade.direction = "LONG"
           THEN trade.current_stop < trade.actions.move_stop
           ELSE trade.actions.move_stop < trade.current_stop
        /\ (~StopBehindEntry \/ 3 * Abs(trade.entry - trade.exit_plan.initial_stop) > 2 * Pts(1)) => Between
        /\ StopBehindEntry =>
            trade.actions.move_stop =
                trade.entry + (IF trade.direction = "LONG" THEN Pts(1) ELSE 0 - Pts(1))

\* the zone found at the last bar of the file is in the list
CandidateIn(fvgs) == \E k \in 1..Len(fvgs) : fvgs[k].index = Len(df)

\* C34: when the insertion rejects the candidate, the active set is exactly
\* what it was before the call: the larger zones met earlier in the scan
\* are retained and nothing is added.
C34_RejectionLeavesRegistry ==
    [][(last_processed = None /\ last_processed' # None /\ ~CandidateIn(active_fvgs')) =>
            active_fvgs' = active_fvgs]_vars

\* bullish 105-113 (size 8) met the larger bullish 110-120 first and was
\* then rejected by the smaller bullish 102-108: both are still there
C34_Witness ==
    /\ last_processed # None
    /\ df = GapFile(Pts(105), Pts(113), TRUE)
    /\ ~CandidateIn(active_fvgs)
    /\ \E i, j \in 1..Len(active_fvgs) :
        /\ i < j
        /\ active_fvgs[i].type = "bullish" /\ ~active_fvgs[i].filled
        /\ active_fvgs[i].bottom = Pts(110) /\ active_fvgs[i].top = Pts(120)
        /\ active_fvgs[j].type = "bullish" /\ ~active_fvgs[j].filled
        /\ active_fvgs[j].bottom = Pts(102) /\ active_fvgs[j].top = Pts(108)

(***************************************************************************)
(* Properties of the bar that creates a zone                               *)
(***************************************************************************)
\* C35: a zone is never marked filled by the completed bar that created
\* it: after process_historical_bars has handled bar i, the zone it found
\* from the bars i-2 and i is unfilled, whatever the bars are.
C35_CreatingBarNeverFills ==
    [][(fvg_phase = "live" /\ last_processed' # last_processed) =>
        \A k \in 1..Len(active_fvgs') :
            active_fvgs'[k].index = Len(df) => ~active_fvgs'[k].filled]_vars

\* the fourth bar created a bullish zone, which is unfilled, and filled
\* the bearish zone of the third bar by reaching its top
C35_Witness ==
    /\ fvg_phase = "live"
    /\ Len(df) = 4
    /\ last_processed = 4
    /\ \E k, j \in 1..Len(active_fvgs) :
        /\ active_fvgs[k].index = 4
        /\ active_fvgs[k].type = "bullish"
        /\ ~active_fvgs[k].filled
        /\ active_fvgs[j].index = 3
        /\ active_fvgs[j].type = "bearish"
        /\ active_fvgs[j].filled
        /\ df[4].High >= active_fvgs[j].top

(***************************************************************************)
(* Properties of the partial sizes                                         *)
(***************************************************************************)
\* what check_partial_exit hands out when the price stands at the first
\* target with no partial taken, and at the second with one taken
PartialsAtTargets ==
    CheckPartialExit(trade.direction, trade.exit_plan.target_1, trade.exit_plan, 0)
        \o CheckPartialExit(trade.direction, trade.exit_plan.target_2, trade.exit_plan, 1)

\* the three sizes are not negative and add up to the quantity, and the two
\* partial exits do not take more than the quantity
SizesFit ==
    LET sizes == trade.exit_plan.partial_sizes
        partials == PartialsAtTargets
    IN  /\ \A k \in 1..3 : sizes[k] >= 0
        /\ sizes[1] + sizes[2] + sizes[3] = trade.quantity
        /\ Len(partials) = 2
        /\ partials[1].quantity + partials[2].quantity <= trade.quantity

\* C36: for every quantity of 1 or more, the partial sizes of
\* create_exit_plan are all non-negative and sum to the quantity, and the
\* partial exits of check_partial_exit (q1 at target 1, then q2 at target
\* 2) never total more than the quantity.
C36_PartialSizesFit ==
    (trade.op = "create_exit_plan" /\ trade.quantity >= 1) => SizesFit

\* what does hold: the same from a quantity of 2
PartialSizesFitFromTwo ==
    (trade.op = "create_exit_plan" /\ trade.quantity >= 2) => SizesFit

(***************************************************************************)
(* Properties of the gate after resume_trading                             *)
(***************************************************************************)
\* the gate is not halted although the losing streak is at its limit: the
\* state resume_trading leaves behind after a halt by that limit
ResumedAtLimit ==
    metrics.state = NORMAL /\ metrics.consecutive_losses >= MaxConsecutiveLosses

\* the step is a call of op on the gate
GateCalled(op) == ret'.op = op /\ now' = now /\ today' = today

\* resume_trading changes the state and its reason and nothing else
ResumeKeepsCounters ==
    GateCalled("resume_trading") =>
        metrics' = [metrics EXCEPT !.state = metrics'.state,
                                   !.state_reason = metrics'.state_reason]

\* the losing streak gets shorter only by a winning exit or by a restart
\* on another date than the one of the state file
StreakEndsByWinOrNewDate ==
    (metrics'.consecutive_losses < metrics.consecutive_losses) =>
        \/ ret'.op = "record_trade_exit" /\ ret'.result = "WIN"
        \/ ret'.op = "__init__" /\ state_file.date # today

EveryTradeRejected ==
    \A direction \in Directions, stop \in StopPrices, target \in TargetPrices,
       quantity \in CheckQuantities, confidence \in Confidences :
        ~CheckPreTrade(metrics, now, direction, EntryPrice, stop, target,
                       quantity, confidence).allowed

\* C38: whenever can_trade answers not-allowed, check_pre_trade called in
\* the same state and at the same time answers not-allowed for every
\* choice of trade parameters
C38_QuickCheckNeverStricter ==
    ~CanTrade(metrics, now).allowed => EveryTradeRejected

\* can_trade has just refused a gate whose cooldown is still running and
\* whose limits would let a trade through
C38_Witness ==
    /\ ret.op = "can_trade"
    /\ ~ret.allowed
    /\ metrics.state = COOLDOWN
    /\ CooldownRemaining(metrics, now) > 0
    /\ metrics.daily_trades < MaxDailyTrades
    /\ metrics.consecutive_losses < MaxConsecutiveLosses


SavedFieldsSurvive(m, m2) ==
    /\ m2.state = m.state
    /\ m2.state_reason = m.state_reason
    /\ m2.daily_trades = m.daily_trades
    /\ m2.daily_pnl = m.daily_pnl
    /\ m2.daily_wins = m.daily_wins
    /\ m2.daily_losses = m.daily_losses
    /\ m2.daily_volume = m.daily_volume
    /\ m2.consecutive_losses = m.consecutive_losses
    /\ m2.peak_equity = m.peak_equity

\* the two gates answer can_trade and every check_pre_trade alike at time t
SameAnswers(m, m2, t) ==
    /\ CanTrade(m2, t).allowed = CanTrade(m, t).allowed
    /\ \A r \in GateRequests :
        CheckPreTrade(m2, t, r.direction, r.entry, r.stop, r.target, r.quantity,
                      r.confidence).allowed
            = CheckPreTrade(m, t, r.direction, r.entry, r.stop, r.target,
                            r.quantity, r.confidence).allowed

\* a restart that finds the file _save_state wrote from the running gate on
\* the same date
SameDateRoundTrip ==
    /\ GateCalled("__init__")
    /\ state_file = SaveState(metrics, today)

\* C40: saving the risk state and loading it again on the same date yields
\* a gate that answers like the gate that was saved: state, daily counters,
\* consecutive_losses, peak and current equity, current drawdown and the
\* cooldown deadline all survive the round trip
C40_RoundTripPreservesGate ==
    [][SameDateRoundTrip
        => /\ SavedFieldsSurvive(metrics, metrics')
           /\ metrics'.current_equity = metrics.current_equity
           /\ metrics'.current_drawdown = metrics.current_drawdown
           /\ CooldownRemaining(metrics', now) = CooldownRemaining(metrics, now)
           /\ SameAnswers(metrics, metrics', now)]_vars

\* what the round trip does keep: the nine saved fields, while the equity,
\* the drawdown, the open positions and the time of the last loss are those
\* of a fresh RiskMetrics
RoundTripKeepsSavedFields ==
    [][SameDateRoundTrip
        => /\ SavedFieldsSurvive(metrics, metrics')
           /\ metrics'.current_equity = 0
           /\ metrics'.current_drawdown = 0
           /\ metrics'.open_positions = 0
           /\ metrics'.last_loss_time = None]_vars

====
